---- MODULE Spec2Model ----
(***************************************************************************)
(* zaiGoFramework inventory core: the stock ledger (Manager) over the      *)
(* optimistic-concurrency storage contract (PostgreSQLStorage), the        *)
(* transaction journal, the low-stock alerts and the published events.     *)
(*                                                                         *)
(* A ledger operation is not atomic in the code: it is a sequence of       *)
(* storage calls.  Each caller (process) therefore advances one storage    *)
(* call at a time: Begin (validation, catalog reads, GetStock and the      *)
(* local computation of the new record), Write (CreateStock/UpdateStock    *)
(* and the event publish that follows it), Alert (CreateAlert), Journal    *)
(* (CreateTransaction).  Timestamps and the acting user are not modelled.  *)
(***************************************************************************)
EXTENDS Integers, Sequences, FiniteSets, TLC

\* ---------------------------------------------------------------- bounds
\* record writes that the storage accepts in one behaviour
MaxWrites == 3              \* one caller
MaxFaultWrites == 3         \* one caller, failing storage
MaxConcWrites == 3          \* two concurrent callers
\* storage writes and publishes that fail in one behaviour
MaxFaults == 2
\* record writes that the calls and batches of one behaviour can ask for
MaxBatchWrites == 3
\* operations in one batch
MaxBatchLen == 2
\* entries that TrackInventoryMovement writes in one behaviour
MaxTracked == 1
\* journal entries of the reporting scenario
MaxLayers == 2
\* record writes of one behaviour of the alert scenario
MaxAlertWrites == 4
\* alerts resolved in one behaviour
MaxResolves == 2
MaxTrackWrites == 2         \* two callers beside a TrackingManager

Procs == {"p1", "p2"}       \* callers
Items == {"A"}              \* the catalog item that the ledger calls name
Locations == {"L1", "L2"}   \* location ids present in the catalog
Quantities == {30, 50}                  \* valid quantity arguments
Reference(p) == IF p = "p1" THEN "ref1" ELSE "ref2"   \* each caller's reference

\* NewManager's default configuration
DefaultLowStockThreshold == 10

\* ------------------------------------------------------------- constants
TransactionTypeInbound == "inbound"
TransactionTypeOutbound == "outbound"
TransactionTypeTransfer == "transfer"
TransactionTypeAdjust == "adjust"
AlertTypeLowStock == "low_stock"

\* error values returned to the caller ("ok" is a nil error)
ErrItemNotFound == "ErrItemNotFound"
ErrLocationNotFound == "ErrLocationNotFound"
ErrInsufficientStock == "ErrInsufficientStock"
ErrInsufficientReservation == "ErrInsufficientReservation"
ErrVersionMismatch == "ErrVersionMismatch"   \* wrapped in a StorageError, Unwrap yields it
BatchError == "BatchError"                   \* an error ExecuteBatch makes with fmt.Errorf
ErrAlertNotFound == "ErrAlertNotFound"       \* the fmt.Errorf of ResolveAlert
ErrStockNotFound == "ErrStockNotFound"       \* wrapped in a StorageError by Reserve/Release
ValidationError == "ValidationError"
BusinessRuleError == "BusinessRuleError"
StorageError == "StorageError"               \* any other storage failure

ErrInsufficientData == "ErrInsufficientData"         \* GetAverageCost: no inbound entry
ErrNoStandardCost == "ErrNoStandardCost"             \* calculateStandard: no unit cost
ErrUnsupportedMethod == "ErrUnsupportedMethod"       \* CalculateValue: unknown method

ValuationMethodFIFO == "FIFO"
ValuationMethodLIFO == "LIFO"
ValuationMethodAverage == "AVERAGE"
ValuationMethodStandard == "STANDARD"

OpTypes == {"add", "remove", "adjust", "reserve", "release"}

VARIABLES
    config,     \* Manager.config: AllowNegativeStock, LowStockThreshold
    stocks,     \* the stocks table: (item, location) -> row
    journal,    \* the transactions table, in insertion order
    alerts,     \* the stock_alerts table, in insertion order
    events,     \* notifications handed to the EventPublisher
    pc,         \* per caller: position inside the running handler
    op,         \* per caller: the top-level call and its arguments
    cur,        \* per caller: the Add/Remove/Adjust/Reserve/Release being executed
    leg,        \* per caller: which call of Transfer is running
    legErr,     \* per caller: Transfer's saved error of its Add leg
    local,      \* per caller: the handler's local stock, oldQuantity
    res,        \* per caller: the error returned by the finished call
    ret,        \* per caller: the value returned with it by a reporting call
    batch,      \* per caller: the BatchOperation that ExecuteBatch is building
    pre,        \* history, per caller: the tables as they were when the call came in
    writes,     \* history: accepted record writes by operation, finished Transfers
    lastWrite,  \* history: the last accepted record write and the row it replaced
    jfailed,    \* history: CreateTransaction calls that failed
    faults      \* history: steps in which a storage write or a publish failed

vars == <<config, stocks, journal, alerts, events, pc, op, cur, leg, legErr,
          local, res, ret, batch, pre, writes, lastWrite, jfailed, faults>>

shared == <<stocks, journal, alerts, events>>
history == <<writes, lastWrite, jfailed>>

\* --------------------------------------------------------------- records
Key(item, loc) == <<item, loc>>

Nil == <<>>                 \* a nil pointer; <<v>> is a pointer to v
Ptr(v) == <<v>>

\* a Stock with the zero value in every numeric field
ZeroStock == [ItemID |-> "", LocationID |-> "", Quantity |-> 0,
              Reserved |-> 0, Available |-> 0, Version |-> 0]

NoCall == [Type |-> "none", ItemID |-> "", LocationID |-> "", ToLocationID |-> "",
           Quantity |-> 0, Reference |-> ""]

NoLocal == [stock |-> ZeroStock, isNew |-> FALSE, oldQuantity |-> 0]

NoPre == [stocks |-> <<>>, journal |-> 0, alerts |-> 0, events |-> 0,
          jfailed |-> 0, lastWrite |-> [call |-> NoCall, isNew |-> FALSE, before |-> ZeroStock]]

\* no batch is running; attempted is the history of the indices handed to the
\* ledger
NoBatch == [Operations |-> <<>>, i |-> 0, SuccessCount |-> 0, FailureCount |-> 0,
            Errors |-> <<>>, Status |-> "none", attempted |-> <<>>]

NoValue == <<>>             \* no value was returned

NoWrite == [call |-> NoCall, isNew |-> FALSE, before |-> ZeroStock]

Prim(type, item, loc, qty, ref) ==
    [Type |-> type, ItemID |-> item, LocationID |-> loc, ToLocationID |-> "",
     Quantity |-> qty, Reference |-> ref]

\* CalculateAvailable that leaves the stored value as it was
CalculateAvailableStale(s) == s

\* Stock.CalculateAvailable
CalculateAvailable(s) == [s EXCEPT !.Available = s.Quantity - s.Reserved]

\* a new record that starts empty
NewStockEmpty(itemID, locationID, quantity) ==
    [ItemID |-> itemID, LocationID |-> locationID, Quantity |-> 0, Reserved |-> 0,
     Available |-> 0, Version |-> 1]

\* the record Add and Adjust build when there is none
NewStock(itemID, locationID, quantity) ==
    CalculateAvailable([ItemID |-> itemID, LocationID |-> locationID,
                        Quantity |-> quantity, Reserved |-> 0, Available |-> 0,
                        Version |-> 1])

\* an Add that replaces the quantity
AddStockReplaces(s, quantity) ==
    CalculateAvailable([s EXCEPT !.Quantity = quantity, !.Version = @ + 1])

\* the record each handler computes from the one it read
AddStock(s, quantity) ==
    CalculateAvailable([s EXCEPT !.Quantity = @ + quantity, !.Version = @ + 1])

\* Remove that forgets stock.Version++
RemoveStockKeepsVersion(s, quantity) ==
    CalculateAvailable([s EXCEPT !.Quantity = @ - quantity])

RemoveStock(s, quantity) ==
    CalculateAvailable([s EXCEPT !.Quantity = @ - quantity, !.Version = @ + 1])

\* an Adjust that adds its argument to the quantity
AdjustStockByDelta(s, newQuantity) ==
    CalculateAvailable([s EXCEPT !.Quantity = @ + newQuantity, !.Version = @ + 1])

AdjustStock(s, newQuantity) ==
    CalculateAvailable([s EXCEPT !.Quantity = newQuantity, !.Version = @ + 1])

\* Reserve that takes the reserved units out of the quantity as well
ReserveStockFromQuantity(s, quantity) ==
    CalculateAvailable([s EXCEPT !.Quantity = @ - quantity, !.Reserved = @ + quantity,
                                 !.Version = @ + 1])

ReserveStock(s, quantity) ==
    CalculateAvailable([s EXCEPT !.Reserved = @ + quantity, !.Version = @ + 1])

ReleaseStock(s, quantity) ==
    CalculateAvailable([s EXCEPT !.Reserved = @ - quantity, !.Version = @ + 1])

\* the checks of Remove, Reserve and ReleaseReservation on the record read
\* a check against the quantity instead of the available quantity
InsufficientStockByQuantity(s, quantity) == s.Quantity < quantity

InsufficientStock(s, quantity) == s.Available < quantity

\* a check against the available instead of the reserved quantity
InsufficientReservationByAvailable(s, quantity) == s.Available < quantity

InsufficientReservation(s, quantity) == s.Reserved < quantity

\* a quantity argument that is accepted although it is zero
InvalidQuantityNegative(quantity) == quantity < 0

\* the quantity check that opens Add, Remove, Transfer, Reserve and
\* ReleaseReservation
InvalidQuantity(quantity) == quantity <= 0

NegativeStock(s) == ~config.AllowNegativeStock /\ s.Quantity < 0

\* a missing record reported as such by every handler
StockNotFoundAsIs(type) == ErrStockNotFound

\* what a handler returns when GetStock finds no record: Remove turns
\* ErrStockNotFound into ErrInsufficientStock, Reserve and ReleaseReservation
\* return it
StockNotFound(type) ==
    IF type = "remove" THEN ErrInsufficientStock ELSE ErrStockNotFound

\* ---------------------------------------------------------------- storage
\* GetItem / GetLocation: the catalog is read-only to the core
ItemsTable == [A |-> [UnitCost |-> 10], B |-> [UnitCost |-> 3], C |-> [UnitCost |-> 5]]
GetItemOk(itemID) == itemID \in DOMAIN ItemsTable
GetItem(itemID) == ItemsTable[itemID]
\* a catalog that knows every location
GetLocationOkAny(locationID) == TRUE

GetLocationOk(locationID) == locationID \in Locations

\* GetStock: the row, or ErrStockNotFound
HasStock(itemID, locationID) == Key(itemID, locationID) \in DOMAIN stocks
GetStock(itemID, locationID) == stocks[Key(itemID, locationID)]

\* an INSERT that replaces the row of the primary key
CreateStockOkUpsert(s) == TRUE

\* CreateStock: INSERT; a second row for the primary key is rejected (23505)
CreateStockOk(s) == Key(s.ItemID, s.LocationID) \notin DOMAIN stocks

CreateStock(s) ==
    [k \in DOMAIN stocks \cup {Key(s.ItemID, s.LocationID)} |->
        IF k = Key(s.ItemID, s.LocationID) THEN s ELSE stocks[k]]

\* an UPDATE whose WHERE clause leaves the version out
RowsAffectedAnyVersion(s) ==
    IF Key(s.ItemID, s.LocationID) \in DOMAIN stocks THEN 1 ELSE 0

\* UpdateStock: UPDATE ... WHERE item_id, location_id AND version = stock.Version-1;
\* the number of rows affected
RowsAffected(s) ==
    IF /\ Key(s.ItemID, s.LocationID) \in DOMAIN stocks
       /\ stocks[Key(s.ItemID, s.LocationID)].Version = s.Version - 1
    THEN 1 ELSE 0

\* an UPDATE whose SET clause leaves the version out
UpdateStockKeepsVersion(s) ==
    [stocks EXCEPT ![Key(s.ItemID, s.LocationID)] =
        [s EXCEPT !.Version = stocks[Key(s.ItemID, s.LocationID)].Version]]

\* UpdateStock: the SET clause, on the row of the key
UpdateStock(s) == [stocks EXCEPT ![Key(s.ItemID, s.LocationID)] = s]

\* an INSERT that stores nothing
CreateTransactionDropped(tx) == journal

\* CreateTransaction: INSERT INTO transactions
CreateTransaction(tx) == Append(journal, tx)

\* CreateAlert: INSERT INTO stock_alerts
CreateAlert(alert) == Append(alerts, alert)

\* a validation that looks the item up and not the location
validateItemOnly(itemID, locationID) ==
    IF ~GetItemOk(itemID) THEN ErrItemNotFound ELSE "ok"

\* validateItemAndLocation: "ok" or the error
validateItemAndLocation(itemID, locationID) ==
    IF ~GetItemOk(itemID) THEN ErrItemNotFound
    ELSE IF ~GetLocationOk(locationID) THEN ErrLocationNotFound
    ELSE "ok"

\* ------------------------------------------------------------------ Init
Init ==
    /\ config \in [AllowNegativeStock : BOOLEAN,
                   LowStockThreshold : {DefaultLowStockThreshold}]
    /\ stocks = <<>>
    /\ journal = <<>>
    /\ alerts = <<>>
    /\ events = <<>>
    /\ pc = [p \in Procs |-> "idle"]
    /\ op = [p \in Procs |-> NoCall]
    /\ cur = [p \in Procs |-> NoCall]
    /\ leg = [p \in Procs |-> "none"]
    /\ legErr = [p \in Procs |-> "ok"]
    /\ local = [p \in Procs |-> NoLocal]
    /\ res = [p \in Procs |-> "none"]
    /\ ret = [p \in Procs |-> NoValue]
    /\ batch = [p \in Procs |-> NoBatch]
    /\ pre = [p \in Procs |-> NoPre]
    /\ writes = [t \in OpTypes \cup {"transfer"} |-> 0]
    /\ lastWrite = NoWrite
    /\ jfailed = 0
    /\ faults = 0

\* ------------------------------------------------------- handler returns
\* a result whose error entries count the operations from 1
BatchResultOneBased(b, err) ==
    IF err # "ok"
    THEN [b EXCEPT !.Errors = Append(@, [OperationIndex |-> b.i + 1, Error |-> err]),
                   !.FailureCount = @ + 1, !.i = @ + 1]
    ELSE [b EXCEPT !.SuccessCount = @ + 1, !.i = @ + 1]

\* ExecuteBatch's bookkeeping after the operation at index b.i: the error is
\* appended with the index and counted, or the success is counted
BatchResult(b, err) ==
    IF err # "ok"
    THEN [b EXCEPT !.Errors = Append(@, [OperationIndex |-> b.i, Error |-> err]),
                   !.FailureCount = @ + 1, !.i = @ + 1]
    ELSE [b EXCEPT !.SuccessCount = @ + 1, !.i = @ + 1]

\* a return that reports success once the compensation of a Transfer has run
FinishCompensated(p, err) ==
    /\ IF op[p].Type = "batch"
       THEN /\ pc' = [pc EXCEPT ![p] = "batch"]
            /\ batch' = [batch EXCEPT ![p] = BatchResult(@, err)]
            /\ UNCHANGED res
       ELSE /\ pc' = [pc EXCEPT ![p] = "done"]
            /\ res' = [res EXCEPT ![p] = IF leg[p] = "rollback" THEN "ok" ELSE err]
            /\ UNCHANGED batch
    /\ leg' = [leg EXCEPT ![p] = "none"]
    /\ legErr' = [legErr EXCEPT ![p] = "ok"]
    /\ cur' = [cur EXCEPT ![p] = NoCall]
    /\ UNCHANGED local

\* the running top-level call returns err: to its caller, or to the loop of
\* ExecuteBatch that called it
Finish(p, err) ==
    /\ IF op[p].Type = "batch"
       THEN /\ pc' = [pc EXCEPT ![p] = "batch"]
            /\ batch' = [batch EXCEPT ![p] = BatchResult(@, err)]
            /\ UNCHANGED res
       ELSE /\ pc' = [pc EXCEPT ![p] = "done"]
            /\ res' = [res EXCEPT ![p] = err]
            /\ UNCHANGED batch
    /\ leg' = [leg EXCEPT ![p] = "none"]
    /\ legErr' = [legErr EXCEPT ![p] = "ok"]
    /\ cur' = [cur EXCEPT ![p] = NoCall]
    /\ UNCHANGED local

\* the next Add/Remove called by Transfer starts
StartLeg(p, l, call) ==
    /\ pc' = [pc EXCEPT ![p] = "begin"]
    /\ leg' = [leg EXCEPT ![p] = l]
    /\ cur' = [cur EXCEPT ![p] = call]
    /\ local' = [local EXCEPT ![p] = NoLocal]
    /\ UNCHANGED <<res, batch>>

\* the arguments of the running top-level call: the caller's, or those of the
\* operation ExecuteBatch has reached
Top(p) ==
    LET o == batch[p].Operations[batch[p].i + 1] IN
    IF op[p].Type = "batch"
    THEN [Type |-> o.Type, ItemID |-> o.ItemID, LocationID |-> o.LocationID,
          ToLocationID |-> IF o.ToLocationID = Nil THEN "" ELSE o.ToLocationID[1],
          Quantity |-> o.Quantity, Reference |-> o.Reference]
    ELSE op[p]

\* a Transfer whose compensation carries the reference of the Transfer itself
ReturnPlainRollback(p, err) ==
    LET t == Top(p) IN
    CASE leg[p] = "remove" /\ err = "ok" ->
            /\ StartLeg(p, "add", Prim("add", t.ItemID, t.ToLocationID, t.Quantity, t.Reference))
            /\ UNCHANGED legErr
      [] leg[p] = "add" /\ err = "ok" ->
            /\ pc' = [pc EXCEPT ![p] = "transferred"]
            /\ cur' = [cur EXCEPT ![p] = NoCall]
            /\ UNCHANGED <<res, leg, legErr, local, batch>>
      [] leg[p] = "add" /\ err # "ok" ->
            /\ StartLeg(p, "rollback",
                        Prim("add", t.ItemID, t.LocationID, t.Quantity, t.Reference))
            /\ legErr' = [legErr EXCEPT ![p] = err]
      [] leg[p] = "rollback" ->
            Finish(p, legErr[p])
      [] OTHER ->
            Finish(p, err)

\* the running Add/Remove/Adjust/Reserve/ReleaseReservation returns err; when
\* it was called by Transfer, Transfer goes on from the call
Return(p, err) ==
    LET t == Top(p) IN
    CASE leg[p] = "remove" /\ err = "ok" ->
            \* Transfer: the Add to the destination
            /\ StartLeg(p, "add", Prim("add", t.ItemID, t.ToLocationID, t.Quantity, t.Reference))
            /\ UNCHANGED legErr
      [] leg[p] = "add" /\ err = "ok" ->
            \* Transfer: on to the event and the transfer record
            /\ pc' = [pc EXCEPT ![p] = "transferred"]
            /\ cur' = [cur EXCEPT ![p] = NoCall]
            /\ UNCHANGED <<res, leg, legErr, local, batch>>
      [] leg[p] = "add" /\ err # "ok" ->
            \* Transfer: the rollback Add onto the source
            /\ StartLeg(p, "rollback",
                        Prim("add", t.ItemID, t.LocationID, t.Quantity, t.Reference \o "_ROLLBACK"))
            /\ legErr' = [legErr EXCEPT ![p] = err]
      [] leg[p] = "rollback" ->
            \* Transfer: the rollback's own error is only logged
            Finish(p, legErr[p])
      [] OTHER ->
            Finish(p, err)

\* the handler goes on to its record write with the record it computed
ToWrite(p, s, isNew, oldQuantity) ==
    /\ pc' = [pc EXCEPT ![p] = "write"]
    /\ local' = [local EXCEPT ![p] = [stock |-> s, isNew |-> isNew, oldQuantity |-> oldQuantity]]
    /\ UNCHANGED <<res, leg, legErr, cur, batch>>

\* --------------------------------------------------------------- callers
Call(type, item, loc, to, qty) ==
    [Type |-> type, ItemID |-> item, LocationID |-> loc, ToLocationID |-> to,
     Quantity |-> qty, Reference |-> ""]

\* the calls of one caller. ValidCalls: calls with an item and locations of
\* the catalog and a valid quantity, an Add of up to 100 units, an Adjust to
\* -10, 0 or 50. InvalidCalls: calls with a quantity of zero or less, an unknown
\* item or location, or a transfer onto its own source
Calls ==
    LET ValidCalls ==
            {Call("add", i, "L1", "", q) : i \in Items, q \in Quantities \cup {100}}
            \cup {Call(t, i, "L1", "", q) : t \in {"remove", "reserve", "release"}, i \in Items,
                                           q \in Quantities}
            \cup {Call("adjust", i, "L1", "", q) : i \in Items, q \in {-10, 0, 50}}
            \cup {Call(t, i, "L2", "", q) : t \in {"add", "remove"}, i \in Items, q \in Quantities}
            \cup {Call("transfer", i, lt[1], lt[2], q) :
                    i \in Items, lt \in {x \in Locations \X Locations : x[1] # x[2]},
                    q \in Quantities}
        InvalidCalls ==
            {Call(t, "A", "L1", "", q) : t \in OpTypes \ {"adjust"}, q \in {0, -30}}
            \cup {Call(t, "X", "LX", "", 0) : t \in OpTypes \ {"adjust"}}
            \cup {Call(t, "X", "L1", "", 30) : t \in OpTypes}
            \cup {Call(t, "A", "LX", "", 30) : t \in OpTypes}
            \cup {Call("transfer", "A", "L1", "L2", 0), Call("transfer", "X", "LX", "L2", -30),
                  Call("transfer", "A", "L1", "L1", 30),
                  Call("transfer", "X", "L1", "L2", 30), Call("transfer", "A", "LX", "L2", 30),
                  Call("transfer", "A", "L1", "LX", 30)}
    IN ValidCalls \cup InvalidCalls

\* the calls made while storage writes and publishes fail
FaultCalls ==
    {Call("add", "A", "L1", "", 50), Call("remove", "A", "L1", "", 50),
     Call("adjust", "A", "L1", "", 0), Call("reserve", "A", "L1", "", 30),
     Call("release", "A", "L1", "", 30), Call("transfer", "A", "L1", "L2", 30),
     Call("transfer", "A", "L1", "L2", 50), Call("transfer", "A", "L1", "LX", 30)}

\* the calls of two callers that compete for the records of item A
ConcCalls ==
    {Call("add", "A", "L1", "", 50), Call("remove", "A", "L1", "", 30),
     Call("adjust", "A", "L1", "", -10), Call("reserve", "A", "L1", "", 30),
     Call("release", "A", "L1", "", 30), Call("transfer", "A", "L1", "L2", 30)}

TotalWrites ==
    writes["add"] + writes["remove"] + writes["adjust"] + writes["reserve"] + writes["release"]

\* the tables as a call finds them
Snapshot ==
    [stocks |-> stocks, journal |-> Len(journal), alerts |-> Len(alerts),
     events |-> Len(events), jfailed |-> jfailed, lastWrite |-> lastWrite]

\* a caller invokes a ledger operation; snapshot is what the history keeps of
\* the tables at this moment
Invoke(p, call, snapshot) ==
    /\ pc[p] = "idle"
    /\ op' = [op EXCEPT ![p] = [call EXCEPT !.Reference = Reference(p)]]
    /\ pre' = [pre EXCEPT ![p] = snapshot]
    /\ IF call.Type = "transfer"
       THEN /\ pc' = [pc EXCEPT ![p] = "transfer"]
            /\ UNCHANGED cur
       ELSE /\ pc' = [pc EXCEPT ![p] = "begin"]
            /\ cur' = [cur EXCEPT ![p] = [call EXCEPT !.Reference = Reference(p)]]
    /\ UNCHANGED <<config, ret, shared, leg, legErr, local, res, batch, history, faults>>

\* the caller has its result
Returned(p) ==
    /\ pc[p] = "done"
    /\ pc' = [pc EXCEPT ![p] = "idle"]
    /\ op' = [op EXCEPT ![p] = NoCall]
    /\ res' = [res EXCEPT ![p] = "none"]
    /\ local' = [local EXCEPT ![p] = NoLocal]
    /\ pre' = [pre EXCEPT ![p] = NoPre]
    /\ batch' = [batch EXCEPT ![p] = NoBatch]
    /\ ret' = [ret EXCEPT ![p] = NoValue]
    /\ UNCHANGED <<config, shared, cur, leg, legErr, history, faults>>

\* ---------------------------------------------------------------- ledger
\* Manager.Add up to its storage write
Add(p) ==
    LET c == cur[p]
        s == GetStock(c.ItemID, c.LocationID)
        v == validateItemAndLocation(c.ItemID, c.LocationID)
    IN
    /\ pc[p] = "begin"
    /\ c.Type = "add"
    /\ IF InvalidQuantity(c.Quantity) THEN Return(p, ValidationError)
       ELSE IF v # "ok" THEN Return(p, v)
       ELSE IF ~HasStock(c.ItemID, c.LocationID)
       THEN ToWrite(p, NewStock(c.ItemID, c.LocationID, c.Quantity), TRUE, 0)
       ELSE ToWrite(p, AddStock(s, c.Quantity), FALSE, s.Quantity)
    /\ UNCHANGED <<config, ret, shared, op, pre, history, faults>>

\* a Remove without the check of the available quantity
RemoveUnchecked(p) ==
    LET c == cur[p]
        s == GetStock(c.ItemID, c.LocationID)
        v == validateItemAndLocation(c.ItemID, c.LocationID)
    IN
    /\ pc[p] = "begin"
    /\ c.Type = "remove"
    /\ IF InvalidQuantity(c.Quantity) THEN Return(p, ValidationError)
       ELSE IF v # "ok" THEN Return(p, v)
       ELSE IF ~HasStock(c.ItemID, c.LocationID) THEN Return(p, StockNotFound(c.Type))
       ELSE IF NegativeStock(RemoveStock(s, c.Quantity)) THEN Return(p, BusinessRuleError)
       ELSE ToWrite(p, RemoveStock(s, c.Quantity), FALSE, s.Quantity)
    /\ UNCHANGED <<config, ret, shared, op, pre, history, faults>>

\* Manager.Remove up to its storage write
Remove(p) ==
    LET c == cur[p]
        s == GetStock(c.ItemID, c.LocationID)
        v == validateItemAndLocation(c.ItemID, c.LocationID)
    IN
    /\ pc[p] = "begin"
    /\ c.Type = "remove"
    /\ IF InvalidQuantity(c.Quantity) THEN Return(p, ValidationError)
       ELSE IF v # "ok" THEN Return(p, v)
       ELSE IF ~HasStock(c.ItemID, c.LocationID) THEN Return(p, StockNotFound(c.Type))
       ELSE IF InsufficientStock(s, c.Quantity) THEN Return(p, ErrInsufficientStock)
       ELSE IF NegativeStock(RemoveStock(s, c.Quantity)) THEN Return(p, BusinessRuleError)
       ELSE ToWrite(p, RemoveStock(s, c.Quantity), FALSE, s.Quantity)
    /\ UNCHANGED <<config, ret, shared, op, pre, history, faults>>

\* an Adjust that refuses a quantity below the reserved quantity
AdjustChecksReserved(p) ==
    LET c == cur[p]
        s == GetStock(c.ItemID, c.LocationID)
        v == validateItemAndLocation(c.ItemID, c.LocationID)
    IN
    /\ pc[p] = "begin"
    /\ c.Type = "adjust"
    /\ IF c.Quantity < 0 /\ ~config.AllowNegativeStock THEN Return(p, ValidationError)
       ELSE IF v # "ok" THEN Return(p, v)
       ELSE IF ~HasStock(c.ItemID, c.LocationID)
       THEN ToWrite(p, NewStock(c.ItemID, c.LocationID, c.Quantity), TRUE, 0)
       ELSE IF c.Quantity < s.Reserved THEN Return(p, ErrInsufficientStock)
       ELSE ToWrite(p, AdjustStock(s, c.Quantity), FALSE, s.Quantity)
    /\ UNCHANGED <<config, ret, shared, op, pre, history, faults>>

\* Manager.Adjust up to its storage write
Adjust(p) ==
    LET c == cur[p]
        s == GetStock(c.ItemID, c.LocationID)
        v == validateItemAndLocation(c.ItemID, c.LocationID)
    IN
    /\ pc[p] = "begin"
    /\ c.Type = "adjust"
    /\ IF c.Quantity < 0 /\ ~config.AllowNegativeStock THEN Return(p, ValidationError)
       ELSE IF v # "ok" THEN Return(p, v)
       ELSE IF ~HasStock(c.ItemID, c.LocationID)
       THEN ToWrite(p, NewStock(c.ItemID, c.LocationID, c.Quantity), TRUE, 0)
       ELSE ToWrite(p, AdjustStock(s, c.Quantity), FALSE, s.Quantity)
    /\ UNCHANGED <<config, ret, shared, op, pre, history, faults>>

\* Manager.Reserve up to its storage write
Reserve(p) ==
    LET c == cur[p]
        s == GetStock(c.ItemID, c.LocationID)
    IN
    /\ pc[p] = "begin"
    /\ c.Type = "reserve"
    /\ IF InvalidQuantity(c.Quantity) THEN Return(p, ValidationError)
       ELSE IF ~HasStock(c.ItemID, c.LocationID) THEN Return(p, StockNotFound(c.Type))
       ELSE IF InsufficientStock(s, c.Quantity) THEN Return(p, ErrInsufficientStock)
       ELSE ToWrite(p, ReserveStock(s, c.Quantity), FALSE, s.Quantity)
    /\ UNCHANGED <<config, ret, shared, op, pre, history, faults>>

\* Manager.ReleaseReservation up to its storage write
ReleaseReservation(p) ==
    LET c == cur[p]
        s == GetStock(c.ItemID, c.LocationID)
    IN
    /\ pc[p] = "begin"
    /\ c.Type = "release"
    /\ IF InvalidQuantity(c.Quantity) THEN Return(p, ValidationError)
       ELSE IF ~HasStock(c.ItemID, c.LocationID) THEN Return(p, StockNotFound(c.Type))
       ELSE IF InsufficientReservation(s, c.Quantity) THEN Return(p, ErrInsufficientReservation)
       ELSE ToWrite(p, ReleaseStock(s, c.Quantity), FALSE, s.Quantity)
    /\ UNCHANGED <<config, ret, shared, op, pre, history, faults>>

\* a Transfer that credits the destination without debiting the source
TransferAddOnly(p) ==
    LET t == Top(p)
        vFrom == validateItemAndLocation(t.ItemID, t.LocationID)
        vTo == validateItemAndLocation(t.ItemID, t.ToLocationID)
    IN
    /\ pc[p] = "transfer"
    /\ IF InvalidQuantity(t.Quantity) THEN Finish(p, ValidationError)
       ELSE IF t.LocationID = t.ToLocationID THEN Finish(p, ValidationError)
       ELSE IF vFrom # "ok" THEN Finish(p, vFrom)
       ELSE IF vTo # "ok" THEN Finish(p, vTo)
       ELSE /\ StartLeg(p, "add",
                        Prim("add", t.ItemID, t.ToLocationID, t.Quantity, t.Reference))
            /\ UNCHANGED legErr
    /\ UNCHANGED <<config, ret, shared, op, pre, history, faults>>

\* Manager.Transfer up to its first call
Transfer(p) ==
    LET t == Top(p)
        vFrom == validateItemAndLocation(t.ItemID, t.LocationID)
        vTo == validateItemAndLocation(t.ItemID, t.ToLocationID)
    IN
    /\ pc[p] = "transfer"
    /\ IF InvalidQuantity(t.Quantity) THEN Finish(p, ValidationError)
       ELSE IF t.LocationID = t.ToLocationID THEN Finish(p, ValidationError)
       ELSE IF vFrom # "ok" THEN Finish(p, vFrom)
       ELSE IF vTo # "ok" THEN Finish(p, vTo)
       ELSE /\ StartLeg(p, "remove",
                        Prim("remove", t.ItemID, t.LocationID, t.Quantity, t.Reference))
            /\ UNCHANGED legErr
    /\ UNCHANGED <<config, ret, shared, op, pre, history, faults>>

\* the calls that fail in a step: the storage call, the event publish
Faults == SUBSET {"storage", "publish"}
NoFault == {}

StockChangedEvent(c, l) ==
    [Kind |-> "StockChanged", ItemID |-> c.ItemID, LocationID |-> c.LocationID,
     OldQuantity |-> l.oldQuantity, NewQuantity |-> l.stock.Quantity,
     ChangeType |-> c.Type, Reference |-> c.Reference]

LowStockAlertEvent(c, l) ==
    [Kind |-> "LowStockAlert", ItemID |-> c.ItemID, LocationID |-> c.LocationID,
     CurrentQty |-> l.stock.Quantity, Threshold |-> config.LowStockThreshold]

ItemTransferredEvent(t) ==
    [Kind |-> "ItemTransferred", ItemID |-> t.ItemID, FromLocationID |-> t.LocationID,
     ToLocationID |-> t.ToLocationID, Quantity |-> t.Quantity, Reference |-> t.Reference]

\* an alert that is stored as resolved
StockAlertInactive(c, l) ==
    [Type |-> AlertTypeLowStock, ItemID |-> c.ItemID, LocationID |-> c.LocationID,
     CurrentQty |-> l.stock.Quantity, Threshold |-> config.LowStockThreshold,
     IsActive |-> FALSE, ResolvedAt |-> 1]

\* the StockAlert built by triggerLowStockAlert
StockAlert(c, l) ==
    [Type |-> AlertTypeLowStock, ItemID |-> c.ItemID, LocationID |-> c.LocationID,
     CurrentQty |-> l.stock.Quantity, Threshold |-> config.LowStockThreshold,
     IsActive |-> TRUE, ResolvedAt |-> Nil]

\* a Transaction whose location is always written to FromLocation
TransactionFromLocation(c, l) ==
    [Type |-> CASE c.Type = "add" -> TransactionTypeInbound
                [] c.Type = "remove" -> TransactionTypeOutbound
                [] OTHER -> TransactionTypeAdjust,
     ItemID |-> c.ItemID, FromLocation |-> Ptr(c.LocationID), ToLocation |-> Nil,
     Quantity |-> IF c.Type = "adjust" THEN c.Quantity - l.oldQuantity ELSE c.Quantity,
     UnitCost |-> Nil, Reference |-> c.Reference]

\* the Transaction built by Add, Remove and Adjust
Transaction(c, l) ==
    CASE c.Type = "add" ->
            [Type |-> TransactionTypeInbound, ItemID |-> c.ItemID,
             FromLocation |-> Nil, ToLocation |-> Ptr(c.LocationID),
             Quantity |-> c.Quantity, UnitCost |-> Nil, Reference |-> c.Reference]
      [] c.Type = "remove" ->
            [Type |-> TransactionTypeOutbound, ItemID |-> c.ItemID,
             FromLocation |-> Ptr(c.LocationID), ToLocation |-> Nil,
             Quantity |-> c.Quantity, UnitCost |-> Nil, Reference |-> c.Reference]
      [] OTHER ->
            [Type |-> TransactionTypeAdjust, ItemID |-> c.ItemID,
             FromLocation |-> Nil, ToLocation |-> Ptr(c.LocationID),
             Quantity |-> c.Quantity - l.oldQuantity, UnitCost |-> Nil,
             Reference |-> c.Reference]

\* the Transaction built by Transfer
TransferTransaction(t) ==
    [Type |-> TransactionTypeTransfer, ItemID |-> t.ItemID,
     FromLocation |-> Ptr(t.LocationID), ToLocation |-> Ptr(t.ToLocationID),
     Quantity |-> t.Quantity, UnitCost |-> Nil, Reference |-> t.Reference]

\* the record write accepted by the storage: CreateStock inserts the row,
\* UpdateStock replaces it when its version is the one that was read
WriteAccepted(l) ==
    IF l.isNew THEN CreateStockOk(l.stock) ELSE RowsAffected(l.stock) # 0

\* a rejected record write reported as a plain storage failure
WriteErrorStorage(l) == StorageError

\* the error of a rejected record write
WriteError(l) == IF l.isNew THEN StorageError ELSE ErrVersionMismatch

\* a Remove that raises the alert only below the threshold
AfterWriteBelowThreshold(c, l) ==
    IF c.Type = "remove" /\ l.stock.Quantity < config.LowStockThreshold
    THEN "alert" ELSE "journal"

\* where Add, Remove and Adjust go on after their record write
AfterWrite(c, l) ==
    IF c.Type = "remove" /\ l.stock.Quantity <= config.LowStockThreshold
    THEN "alert" ELSE "journal"

\* the storage write of Add/Remove/Adjust/Reserve/ReleaseReservation and the
\* StockChanged publish that follows it in Add/Remove/Adjust; the storage
\* accepts at most max record writes
StockWrite(p, fault, max) ==
    LET c == cur[p]
        l == local[p]
    IN
    /\ pc[p] = "write"
    /\ "publish" \in fault => "storage" \notin fault /\ c.Type \in {"add", "remove", "adjust"}
    /\ "storage" \notin fault /\ WriteAccepted(l) => TotalWrites < max
    /\ IF "storage" \in fault
       THEN /\ Return(p, StorageError)
            /\ UNCHANGED <<stocks, events, writes, lastWrite>>
       ELSE IF ~WriteAccepted(l)
       THEN /\ Return(p, WriteError(l))
            /\ UNCHANGED <<stocks, events, writes, lastWrite>>
       ELSE /\ stocks' = IF l.isNew THEN CreateStock(l.stock) ELSE UpdateStock(l.stock)
            /\ writes' = [writes EXCEPT ![c.Type] = @ + 1]
            /\ lastWrite' = [call |-> c, isNew |-> l.isNew,
                             before |-> IF l.isNew THEN ZeroStock
                                        ELSE GetStock(c.ItemID, c.LocationID)]
            /\ IF c.Type \in {"reserve", "release"}
               THEN /\ Return(p, "ok")
                    /\ UNCHANGED events
               ELSE /\ events' = IF "publish" \in fault THEN events
                                 ELSE Append(events, StockChangedEvent(c, l))
                    /\ pc' = [pc EXCEPT ![p] = AfterWrite(c, l)]
                    /\ UNCHANGED <<res, leg, legErr, cur, local, batch>>
    /\ UNCHANGED <<config, ret, journal, alerts, op, pre, jfailed>>

\* Manager.triggerLowStockAlert, called by Remove
triggerLowStockAlert(p, fault) ==
    /\ pc[p] = "alert"
    /\ IF "storage" \in fault
       THEN UNCHANGED <<alerts, events>>
       ELSE /\ alerts' = CreateAlert(StockAlert(cur[p], local[p]))
            /\ events' = IF "publish" \in fault THEN events
                         ELSE Append(events, LowStockAlertEvent(cur[p], local[p]))
    /\ pc' = [pc EXCEPT ![p] = "journal"]
    /\ UNCHANGED <<config, ret, stocks, journal, op, cur, leg, legErr, local, res, batch, pre,
                   history>>

\* an ending that reports the failure of its CreateTransaction to the caller
RecordTransactionStrict(p, fault) ==
    /\ pc[p] = "journal"
    /\ "publish" \notin fault
    /\ IF "storage" \in fault
       THEN /\ jfailed' = jfailed + 1
            /\ UNCHANGED journal
            /\ Return(p, StorageError)
       ELSE /\ journal' = CreateTransaction(Transaction(cur[p], local[p]))
            /\ UNCHANGED jfailed
            /\ Return(p, "ok")
    /\ UNCHANGED <<config, ret, stocks, alerts, events, op, pre, writes, lastWrite>>

\* the CreateTransaction that ends Add, Remove and Adjust
RecordTransaction(p, fault) ==
    /\ pc[p] = "journal"
    /\ "publish" \notin fault
    /\ IF "storage" \in fault
       THEN /\ jfailed' = jfailed + 1
            /\ UNCHANGED journal
       ELSE /\ journal' = CreateTransaction(Transaction(cur[p], local[p]))
            /\ UNCHANGED jfailed
    /\ Return(p, "ok")
    /\ UNCHANGED <<config, ret, stocks, alerts, events, op, pre, writes, lastWrite>>

\* an ending of Transfer that publishes and records nothing in the journal
TransferRecordSilent(p, fault) ==
    /\ pc[p] = "transferred"
    /\ events' = IF "publish" \in fault THEN events
                 ELSE Append(events, ItemTransferredEvent(Top(p)))
    /\ UNCHANGED <<journal, jfailed>>
    /\ writes' = [writes EXCEPT !["transfer"] = @ + 1]
    /\ Finish(p, "ok")
    /\ UNCHANGED <<config, ret, stocks, alerts, op, pre, lastWrite>>

\* the ItemTransferred publish and the CreateTransaction that end Transfer
TransferRecord(p, fault) ==
    /\ pc[p] = "transferred"
    /\ events' = IF "publish" \in fault THEN events
                 ELSE Append(events, ItemTransferredEvent(Top(p)))
    /\ IF "storage" \in fault
       THEN /\ jfailed' = jfailed + 1
            /\ UNCHANGED journal
       ELSE /\ journal' = CreateTransaction(TransferTransaction(Top(p)))
            /\ UNCHANGED jfailed
    /\ writes' = [writes EXCEPT !["transfer"] = @ + 1]
    /\ Finish(p, "ok")
    /\ UNCHANGED <<config, ret, stocks, alerts, op, pre, lastWrite>>

\* ------------------------------------------------------ batch, tracking
\* an InventoryOperation of a batch
InventoryOperation(type, item, loc, to, qty, ref) ==
    [Type |-> type, ItemID |-> item, LocationID |-> loc, ToLocationID |-> to,
     Quantity |-> qty, Reference |-> ref]

\* the operations batches are made of: valid ones, an Adjust below zero, a
\* transfer without ToLocationID, a type ExecuteBatch does not know
BatchOperations(ref) ==
    {InventoryOperation("add", "A", "L1", Nil, 50, ref),
     InventoryOperation("remove", "A", "L1", Nil, 30, ref),
     InventoryOperation("adjust", "A", "L1", Nil, -10, ref),
     InventoryOperation("transfer", "A", "L1", Ptr("L2"), 30, ref),
     InventoryOperation("transfer", "A", "L1", Nil, 30, ref),
     InventoryOperation("reserve", "A", "L1", Nil, 30, ref)}

\* the batches of at most MaxBatchLen operations
Batches(ref) ==
    UNION {[1..n -> BatchOperations(ref)] : n \in 0..MaxBatchLen}

\* the record writes a list of operations can ask for
RECURSIVE WriteCost(_)
WriteCost(operations) ==
    IF operations = <<>> THEN 0
    ELSE (IF Head(operations).Type = "transfer" THEN 2 ELSE 1) + WriteCost(Tail(operations))

\* a caller invokes ExecuteBatch: the BatchOperation is built, pending
InvokeBatch(p, operations, snapshot) ==
    /\ pc[p] = "idle"
    /\ pc' = [pc EXCEPT ![p] = "batch"]
    /\ op' = [op EXCEPT ![p] = [Call("batch", "", "", "", 0) EXCEPT !.Reference = Reference(p)]]
    /\ pre' = [pre EXCEPT ![p] = snapshot]
    /\ batch' = [batch EXCEPT ![p] = [NoBatch EXCEPT !.Operations = operations,
                                                      !.Status = "pending"]]
    /\ UNCHANGED <<config, ret, shared, cur, leg, legErr, local, res, history, faults>>

\* a loop that gives up at the first operation that fails
ExecuteBatchStopsAtFailure(p) ==
    LET b == batch[p]
        o == b.Operations[b.i + 1]
        tried == [b EXCEPT !.attempted = Append(@, b.i)]
    IN
    /\ pc[p] = "batch"
    /\ IF b.i >= Len(b.Operations) \/ b.FailureCount > 0
       THEN /\ batch' = [batch EXCEPT ![p].Status =
                            IF b.FailureCount > 0 THEN "failed" ELSE "completed"]
            /\ pc' = [pc EXCEPT ![p] = "done"]
            /\ res' = [res EXCEPT ![p] = "ok"]
            /\ UNCHANGED <<cur, local>>
       ELSE IF o.Type \in {"add", "remove", "adjust"}
       THEN /\ batch' = [batch EXCEPT ![p] = tried]
            /\ pc' = [pc EXCEPT ![p] = "begin"]
            /\ cur' = [cur EXCEPT ![p] = Prim(o.Type, o.ItemID, o.LocationID, o.Quantity,
                                              o.Reference)]
            /\ local' = [local EXCEPT ![p] = NoLocal]
            /\ UNCHANGED res
       ELSE IF o.Type = "transfer" /\ o.ToLocationID # Nil
       THEN /\ batch' = [batch EXCEPT ![p] = tried]
            /\ pc' = [pc EXCEPT ![p] = "transfer"]
            /\ local' = [local EXCEPT ![p] = NoLocal]
            /\ UNCHANGED <<res, cur>>
       ELSE /\ batch' = [batch EXCEPT ![p] = BatchResult(tried, BatchError)]
            /\ UNCHANGED <<pc, res, cur, local>>
    /\ UNCHANGED <<config, ret, shared, op, leg, legErr, pre, history, faults>>

\* Manager.ExecuteBatch: the head of its loop, and its end
ExecuteBatch(p) ==
    LET b == batch[p]
        o == b.Operations[b.i + 1]
        tried == [b EXCEPT !.attempted = Append(@, b.i)]
    IN
    /\ pc[p] = "batch"
    /\ IF b.i >= Len(b.Operations)
       THEN \* the loop is over: the status, and the batch is returned with a nil error
            /\ batch' = [batch EXCEPT ![p].Status =
                            IF b.FailureCount > 0 THEN "failed" ELSE "completed"]
            /\ pc' = [pc EXCEPT ![p] = "done"]
            /\ res' = [res EXCEPT ![p] = "ok"]
            /\ UNCHANGED <<cur, local>>
       ELSE IF o.Type \in {"add", "remove", "adjust"}
       THEN /\ batch' = [batch EXCEPT ![p] = tried]
            /\ pc' = [pc EXCEPT ![p] = "begin"]
            /\ cur' = [cur EXCEPT ![p] = Prim(o.Type, o.ItemID, o.LocationID, o.Quantity,
                                              o.Reference)]
            /\ local' = [local EXCEPT ![p] = NoLocal]
            /\ UNCHANGED res
       ELSE IF o.Type = "transfer" /\ o.ToLocationID # Nil
       THEN /\ batch' = [batch EXCEPT ![p] = tried]
            /\ pc' = [pc EXCEPT ![p] = "transfer"]
            /\ local' = [local EXCEPT ![p] = NoLocal]
            /\ UNCHANGED <<res, cur>>
       ELSE \* no ToLocationID, or an unknown type: the error is made on the spot
            /\ batch' = [batch EXCEPT ![p] = BatchResult(tried, BatchError)]
            /\ UNCHANGED <<pc, res, cur, local>>
    /\ UNCHANGED <<config, ret, shared, op, leg, legErr, pre, history, faults>>

\* a tracker that rewrites the newest entry instead of inserting one
TrackInventoryMovementUpsert(txType, itemID, fromLocation, toLocation, quantity, reference, unitCost) ==
    /\ Cardinality({n \in DOMAIN journal : journal[n].Reference = reference}) < MaxTracked
    /\ journal' = (IF journal = <<>> THEN <<>> ELSE SubSeq(journal, 1, Len(journal) - 1))
                      \o <<[Type |-> txType, ItemID |-> itemID, FromLocation |-> fromLocation,
                            ToLocation |-> toLocation, Quantity |-> quantity,
                            UnitCost |-> unitCost, Reference |-> reference]>>
    /\ UNCHANGED <<config, ret, stocks, alerts, events, pc, op, cur, leg, legErr, local, res,
                   batch, pre, history, faults>>

\* TrackingManager.TrackInventoryMovement: one CreateTransaction
TrackInventoryMovement(txType, itemID, fromLocation, toLocation, quantity, reference, unitCost) ==
    /\ Cardinality({n \in DOMAIN journal : journal[n].Reference = reference}) < MaxTracked
    /\ journal' = CreateTransaction(
                      [Type |-> txType, ItemID |-> itemID, FromLocation |-> fromLocation,
                       ToLocation |-> toLocation, Quantity |-> quantity,
                       UnitCost |-> unitCost, Reference |-> reference])
    /\ UNCHANGED <<config, ret, stocks, alerts, events, pc, op, cur, leg, legErr, local, res,
                   batch, pre, history, faults>>

\* ---------------------------------------------------------------- alerts
\* the timestamps that resolutions have written so far
ResolvedTimes ==
    {alerts[n].ResolvedAt[1] : n \in {m \in DOMAIN alerts : alerts[m].ResolvedAt # Nil}}

\* time.Now(): later than every timestamp written so far
Now == 1 + (CHOOSE t \in ResolvedTimes \cup {0} : \A u \in ResolvedTimes : u <= t)

\* Manager.ResolveAlert, that is PostgreSQLStorage.ResolveAlert: one UPDATE
\* WHERE id = $1; the id of an alert is its place in the stock_alerts table
ResolveAlert(p, alertID) ==
    /\ pc[p] = "idle"
    /\ Now <= MaxResolves
    /\ op' = [op EXCEPT ![p] = [Type |-> "resolve", ItemID |-> "", LocationID |-> "",
                                ToLocationID |-> "", Quantity |-> 0,
                                Reference |-> Reference(p), AlertID |-> alertID]]
    /\ pre' = [pre EXCEPT ![p] = Snapshot]
    /\ pc' = [pc EXCEPT ![p] = "done"]
    /\ IF alertID \notin DOMAIN alerts
       THEN /\ res' = [res EXCEPT ![p] = ErrAlertNotFound]
            /\ UNCHANGED alerts
       ELSE /\ res' = [res EXCEPT ![p] = "ok"]
            /\ alerts' = [alerts EXCEPT ![alertID] =
                             [@ EXCEPT !.IsActive = FALSE, !.ResolvedAt = Ptr(Now)]]
    /\ UNCHANGED <<config, ret, stocks, journal, events, cur, leg, legErr, local, batch, history,
                   faults>>

\* GetActiveAlerts: the ids of the active alerts of a location
GetActiveAlerts(locationID) ==
    {n \in DOMAIN alerts : alerts[n].LocationID = locationID /\ alerts[n].IsActive}

\* ------------------------------------------------------------ valuation
\* amounts are float64 in the code; here they are exact fractions in lowest terms
RECURSIVE GCD(_, _)
GCD(a, b) == IF b = 0 THEN a ELSE GCD(b, a % b)

Amount(num, den) ==
    LET g == GCD(IF num < 0 THEN -num ELSE num, den)
    IN [num |-> num \div g, den |-> den \div g]

Whole(n) == Amount(n, 1)
AmountAdd(x, y) == Amount(x.num * y.den + y.num * x.den, x.den * y.den)

Min(a, b) == IF a < b THEN a ELSE b

\* GetTransactionHistory: WHERE item_id = $1 ORDER BY created_at DESC LIMIT $2;
\* a row of the journal written later carries a later created_at
GetTransactionHistory(itemID, limit) ==
    LET JournalRows == [n \in DOMAIN journal |-> [tx |-> journal[n], CreatedAt |-> n]]
        rows == SelectSeq(JournalRows, LAMBDA r : r.tx.ItemID = itemID)
        desc == SortSeq(rows, LAMBDA a, b : a.CreatedAt > b.CreatedAt)
    IN SubSeq(desc, 1, Min(limit, Len(desc)))

\* getInboundTransactions: the Inbound and Transfer entries credited to the
\* location that carry a positive unit cost
getInboundTransactions(itemID, locationID) ==
    SelectSeq(GetTransactionHistory(itemID, 10000),
              LAMBDA r : /\ r.tx.Type \in {TransactionTypeInbound, TransactionTypeTransfer}
                         /\ r.tx.ToLocation # Nil /\ r.tx.ToLocation[1] = locationID
                         /\ r.tx.UnitCost # Nil /\ r.tx.UnitCost[1] > 0)

\* a consumption that takes every layer whole
RECURSIVE calculateValueWholeLayers(_, _)
calculateValueWholeLayers(transactions, quantity) ==
    IF transactions = <<>> \/ quantity <= 0 THEN 0
    ELSE LET tx == Head(transactions).tx IN
         tx.UnitCost[1] * tx.Quantity
            + calculateValueWholeLayers(Tail(transactions), quantity - tx.Quantity)

\* calculateValueFromTransactions: the layers are consumed in the order given
\* until the quantity is covered
RECURSIVE calculateValueFromTransactions(_, _)
calculateValueFromTransactions(transactions, quantity) ==
    IF transactions = <<>> \/ quantity <= 0 THEN 0
    ELSE LET tx == Head(transactions).tx
             useQty == Min(tx.Quantity, quantity)
         IN IF tx.UnitCost = Nil
            THEN calculateValueFromTransactions(Tail(transactions), quantity)
            ELSE tx.UnitCost[1] * useQty
                    + calculateValueFromTransactions(Tail(transactions), quantity - useQty)

\* calculateFIFO, calculateLIFO: sort.Slice on created_at, then the consumption
calculateFIFO(itemID, locationID, quantity) ==
    calculateValueFromTransactions(
        SortSeq(getInboundTransactions(itemID, locationID),
                LAMBDA a, b : a.CreatedAt < b.CreatedAt), quantity)

\* a LIFO that takes the layers oldest first as well
calculateLIFOOldestFirst(itemID, locationID, quantity) ==
    calculateValueFromTransactions(
        SortSeq(getInboundTransactions(itemID, locationID),
                LAMBDA a, b : a.CreatedAt < b.CreatedAt), quantity)

calculateLIFO(itemID, locationID, quantity) ==
    calculateValueFromTransactions(
        SortSeq(getInboundTransactions(itemID, locationID),
                LAMBDA a, b : a.CreatedAt > b.CreatedAt), quantity)

\* an average over the entries of one location only
AverageRowsOneLocation(itemID) ==
    SelectSeq(GetTransactionHistory(itemID, 1000),
              LAMBDA r : /\ r.tx.Type = TransactionTypeInbound
                         /\ r.tx.ToLocation = Ptr("L1")
                         /\ r.tx.UnitCost # Nil /\ r.tx.UnitCost[1] > 0)

\* GetAverageCost: the Inbound entries of the item with a positive unit cost
AverageRows(itemID) ==
    SelectSeq(GetTransactionHistory(itemID, 1000),
              LAMBDA r : /\ r.tx.Type = TransactionTypeInbound
                         /\ r.tx.UnitCost # Nil /\ r.tx.UnitCost[1] > 0)

RECURSIVE SumCost(_)
SumCost(rows) ==
    IF rows = <<>> THEN 0
    ELSE Head(rows).tx.UnitCost[1] * Head(rows).tx.Quantity + SumCost(Tail(rows))

RECURSIVE SumQuantity(_)
SumQuantity(rows) ==
    IF rows = <<>> THEN 0 ELSE Head(rows).tx.Quantity + SumQuantity(Tail(rows))

\* a result is the error and, when the error is nil, the value
Result(err, value) == [err |-> err, value |-> value]

\* an average of zero for an item without priced receipts
GetAverageCostZero(itemID) ==
    LET totalCost == SumCost(AverageRows(itemID))
        totalQuantity == SumQuantity(AverageRows(itemID))
    IN IF totalQuantity = 0 THEN Result("ok", Whole(0))
       ELSE Result("ok", Amount(totalCost, totalQuantity))

\* GetAverageCost: without a priced receipt the data is insufficient
GetAverageCost(itemID) ==
    LET totalCost == SumCost(AverageRows(itemID))
        totalQuantity == SumQuantity(AverageRows(itemID))
    IN IF totalQuantity = 0 THEN Result(ErrInsufficientData, Whole(0))
       ELSE Result("ok", Amount(totalCost, totalQuantity))

calculateAverage(itemID, locationID, quantity) ==
    LET a == GetAverageCost(itemID) IN
    IF a.err # "ok" THEN a
    ELSE Result("ok", Amount(a.value.num * quantity, a.value.den))

calculateStandard(itemID, quantity) ==
    IF ~GetItemOk(itemID) THEN Result(ErrItemNotFound, Whole(0))
    ELSE IF GetItem(itemID).UnitCost <= 0 THEN Result(ErrNoStandardCost, Whole(0))
    ELSE Result("ok", Whole(GetItem(itemID).UnitCost * quantity))

\* ValuationEngineImpl.CalculateValue
CalculateValue(itemID, locationID, method) ==
    IF ~HasStock(itemID, locationID) THEN Result(ErrStockNotFound, Whole(0))
    ELSE LET quantity == GetStock(itemID, locationID).Quantity IN
         IF quantity <= 0 THEN Result("ok", Whole(0))
         ELSE CASE method = ValuationMethodFIFO ->
                      Result("ok", Whole(calculateFIFO(itemID, locationID, quantity)))
                [] method = ValuationMethodLIFO ->
                      Result("ok", Whole(calculateLIFO(itemID, locationID, quantity)))
                [] method = ValuationMethodAverage ->
                      calculateAverage(itemID, locationID, quantity)
                [] method = ValuationMethodStandard ->
                      calculateStandard(itemID, quantity)
                [] OTHER -> Result(ErrUnsupportedMethod, Whole(0))

\* ListStockByLocation: the keys of the rows of a location
ListStockByLocation(locationID) == {k \in DOMAIN stocks : k[2] = locationID}

RECURSIVE SumAmounts(_, _)
SumAmounts(f, S) ==
    IF S = {} THEN Whole(0)
    ELSE LET k == CHOOSE x \in S : TRUE IN AmountAdd(f[k], SumAmounts(f, S \ {k}))

\* an aggregate that fails as soon as one item cannot be valued
CalculateTotalValueStrict(locationID, method) ==
    LET rows == {k \in ListStockByLocation(locationID) : stocks[k].Quantity > 0}
        bad == {k \in rows : CalculateValue(k[1], locationID, method).err # "ok"}
        good == rows \ bad
    IN IF bad # {} THEN Result(StorageError, Whole(0))
       ELSE Result("ok", SumAmounts([k \in good |-> CalculateValue(k[1], locationID, method).value],
                                    good))

\* ValuationEngineImpl.CalculateTotalValue
CalculateTotalValue(locationID, method) ==
    LET rows == {k \in ListStockByLocation(locationID) : stocks[k].Quantity > 0}
        good == {k \in rows : CalculateValue(k[1], locationID, method).err = "ok"}
    IN Result("ok", SumAmounts([k \in good |-> CalculateValue(k[1], locationID, method).value],
                               good))

\* ------------------------------------------------------------ analytics
\* CalculateABCClassification: the estimated annual sales of the items of a
\* location, ten times the quantity at the unit cost of the catalog
ItemValues(locationID) ==
    [i \in {k[1] : k \in {x \in ListStockByLocation(locationID) : GetItemOk(x[1])}} |->
        (GetStock(i, locationID).Quantity * 10) * GetItem(i).UnitCost]

RECURSIVE SumValues(_, _)
SumValues(f, S) ==
    IF S = {} THEN 0
    ELSE LET k == CHOOSE x \in S : TRUE IN f[k] + SumValues(f, S \ {k})

\* cumulativeValue / totalValue <= num / den as the float64 division has it: a
\* division of zero by zero is NaN and compares false, a division by zero is
\* an infinity
PercentageAtMost(cumulativeValue, totalValue, num, den) ==
    IF totalValue > 0 THEN cumulativeValue * den <= num * totalValue
    ELSE IF totalValue < 0 THEN cumulativeValue * den >= num * totalValue
    ELSE cumulativeValue < 0

\* a classification that compares the share of the item alone
ClassAtShareOfItem(itemValues, s, i) ==
    LET totalValue == SumValues(itemValues, DOMAIN itemValues)
        value == itemValues[s[i]]
    IN IF PercentageAtMost(value, totalValue, 8, 10) THEN "A"
       ELSE IF PercentageAtMost(value, totalValue, 95, 100) THEN "B"
       ELSE "C"

\* the class of the item at place i of the order s
ClassAt(itemValues, s, i) ==
    LET totalValue == SumValues(itemValues, DOMAIN itemValues)
        cumulativeValue == SumValues([j \in 1..i |-> itemValues[s[j]]], 1..i)
    IN IF PercentageAtMost(cumulativeValue, totalValue, 8, 10) THEN "A"
       ELSE IF PercentageAtMost(cumulativeValue, totalValue, 95, 100) THEN "B"
       ELSE "C"

\* a classification that ranks the items lowest value first
classifyABCAscending(itemValues) ==
    LET D == DOMAIN itemValues
        n == Cardinality(D)
        Rankings == {s \in [1..n -> D] :
                        /\ \A i, j \in 1..n : i # j => s[i] # s[j]
                        /\ \A i, j \in 1..n : i < j => itemValues[s[i]] <= itemValues[s[j]]}
    IN {[i \in D |-> ClassAt(itemValues, s, CHOOSE m \in DOMAIN s : s[m] = i)] :
        s \in Rankings}

\* classifyABC: the classifications it can return, one for each order that
\* sort.Slice can leave the items in: the values never increase; items of
\* equal value come in any order
classifyABC(itemValues) ==
    LET D == DOMAIN itemValues
        n == Cardinality(D)
        Rankings == {s \in [1..n -> D] :
                        /\ \A i, j \in 1..n : i # j => s[i] # s[j]
                        /\ \A i, j \in 1..n : i < j => itemValues[s[i]] >= itemValues[s[j]]}
    IN {[i \in D |-> ClassAt(itemValues, s, CHOOSE m \in DOMAIN s : s[m] = i)] :
        s \in Rankings}

\* Manager.GetTotalStock: the item is looked up, then the quantities are added
GetTotalStock(itemID) ==
    LET rows == {x \in DOMAIN stocks : x[1] = itemID} IN
    IF ~GetItemOk(itemID) THEN Result(ErrItemNotFound, 0)
    ELSE Result("ok", SumValues([k \in rows |-> stocks[k].Quantity], rows))

\* ------------------------------------------------------------ reporting
\* a reporting call and its arguments
Report(type, item, loc, method) ==
    [Type |-> type, ItemID |-> item, LocationID |-> loc, ToLocationID |-> "",
     Quantity |-> 0, Reference |-> "", Method |-> method]

\* a reporting call reads, returns its result, and writes nothing
Reported(p, call, result) ==
    /\ pc[p] = "idle"
    /\ pc' = [pc EXCEPT ![p] = "done"]
    /\ op' = [op EXCEPT ![p] = call]
    /\ pre' = [pre EXCEPT ![p] = Snapshot]
    /\ res' = [res EXCEPT ![p] = result.err]
    /\ ret' = [ret EXCEPT ![p] = result.value]
    /\ UNCHANGED <<config, shared, cur, leg, legErr, local, batch, history, faults>>

\* ------------------------------------------------------- specifications
\* one step of a running call; the storage and the publisher answer
Step(p, max) ==
    \/ Transfer(p)
    \/ Add(p)
    \/ Remove(p)
    \/ Adjust(p)
    \/ Reserve(p)
    \/ ReleaseReservation(p)
    \/ StockWrite(p, NoFault, max) /\ UNCHANGED faults
    \/ triggerLowStockAlert(p, NoFault) /\ UNCHANGED faults
    \/ RecordTransaction(p, NoFault) /\ UNCHANGED faults
    \/ TransferRecord(p, NoFault) /\ UNCHANGED faults
    \/ Returned(p)

\* one step of a running call in which a storage write or a publish fails
FaultStep(p, max) ==
    /\ faults < MaxFaults
    /\ \/ \E f \in Faults \ {NoFault} : StockWrite(p, f, max)
       \/ \E f \in Faults \ {NoFault} : triggerLowStockAlert(p, f)
       \/ \E f \in Faults \ {NoFault} : RecordTransaction(p, f)
       \/ \E f \in Faults \ {NoFault} : TransferRecord(p, f)
    /\ faults' = faults + 1

\* one caller, calls one after the other
Next ==
    \/ \E call \in Calls : Invoke("p1", call, Snapshot)
    \/ Step("p1", MaxWrites)

Spec == Init /\ [][Next]_vars

\* one caller; storage writes and publishes may fail
NextFault ==
    \/ \E call \in FaultCalls : Invoke("p1", call, Snapshot)
    \/ Step("p1", MaxFaultWrites)
    \/ FaultStep("p1", MaxFaultWrites)

SpecFault == Init /\ [][NextFault]_vars

\* two callers running concurrently; the history keeps no snapshot
NextConc ==
    \E p \in Procs :
        \/ \E call \in ConcCalls : Invoke(p, call, NoPre)
        \/ Step(p, MaxConcWrites)

SpecConc == Init /\ [][NextConc]_vars

\* one caller running batches, with direct calls and tracked movements between
\* them; a call is made when the storage can still take the writes it asks for
BatchStep == Step("p1", MaxBatchWrites) \/ ExecuteBatch("p1")

NextBatch ==
    \/ \E call \in {Call("reserve", "A", "L1", "", 30), Call("release", "A", "L1", "", 30)} :
          /\ Invoke("p1", call, Snapshot)
          /\ TotalWrites + 1 <= MaxBatchWrites
    \/ \E operations \in Batches(Reference("p1")) :
          /\ InvokeBatch("p1", operations, Snapshot)
          /\ TotalWrites + WriteCost(operations) <= MaxBatchWrites
    \/ BatchStep
    \/ TrackInventoryMovement(TransactionTypeInbound, "A", Nil, Ptr("L1"), 30, "track", Ptr(5))

\* a call that has started runs on until it returns
SpecBatch == Init /\ [][NextBatch]_vars /\ WF_vars(BatchStep)

\* two callers of Add, Remove and Adjust on one record while a TrackingManager
\* on the same storage records a receipt of its own
NextTrack ==
    \/ \E p \in Procs :
          \/ \E call \in {Call("add", "A", "L1", "", 50), Call("remove", "A", "L1", "", 50),
                           Call("adjust", "A", "L1", "", 0)} : Invoke(p, call, NoPre)
          \/ Add(p)
          \/ Remove(p)
          \/ Adjust(p)
          \/ StockWrite(p, NoFault, MaxTrackWrites) /\ UNCHANGED faults
          \/ triggerLowStockAlert(p, NoFault) /\ UNCHANGED faults
          \/ RecordTransaction(p, NoFault) /\ UNCHANGED faults
          \/ Returned(p)
    \/ TrackInventoryMovement(TransactionTypeInbound, "A", Nil, Ptr("L1"), 30, "track", Ptr(5))

SpecTrack == Init /\ [][NextTrack]_vars

\* a Manager configured with a low-stock threshold of its own and without
\* negative stock; one caller adds, removes and resolves alerts, and the
\* CreateAlert of a Remove can fail

InitAlert ==
    /\ config \in [AllowNegativeStock : {FALSE}, LowStockThreshold : {40}]
    /\ stocks = <<>>
    /\ journal = <<>>
    /\ alerts = <<>>
    /\ events = <<>>
    /\ pc = [p \in Procs |-> "idle"]
    /\ op = [p \in Procs |-> NoCall]
    /\ cur = [p \in Procs |-> NoCall]
    /\ leg = [p \in Procs |-> "none"]
    /\ legErr = [p \in Procs |-> "ok"]
    /\ local = [p \in Procs |-> NoLocal]
    /\ res = [p \in Procs |-> "none"]
    /\ ret = [p \in Procs |-> NoValue]
    /\ batch = [p \in Procs |-> NoBatch]
    /\ pre = [p \in Procs |-> NoPre]
    /\ writes = [t \in OpTypes \cup {"transfer"} |-> 0]
    /\ lastWrite = NoWrite
    /\ jfailed = 0
    /\ faults = 0

NextAlert ==
    \/ \E call \in {Call("add", "A", "L1", "", 100), Call("remove", "A", "L1", "", 30)} :
          Invoke("p1", call, Snapshot)
    \/ Add("p1")
    \/ Remove("p1")
    \/ StockWrite("p1", NoFault, MaxAlertWrites) /\ UNCHANGED faults
    \/ triggerLowStockAlert("p1", NoFault) /\ UNCHANGED faults
    \/ /\ faults < MaxFaults
       /\ triggerLowStockAlert("p1", {"storage"})
       /\ faults' = faults + 1
    \/ RecordTransaction("p1", NoFault) /\ UNCHANGED faults
    \/ \E alertID \in 1..(Len(alerts) + 1) : ResolveAlert("p1", alertID)
    \/ Returned("p1")

SpecAlert == InitAlert /\ [][NextAlert]_vars

\* the reporting scenario: records and journal entries left by earlier
\* Adjusts and tracked movements, then one caller asking for reports
LayerEntries ==
    {[Type |-> TransactionTypeInbound, ItemID |-> "A", FromLocation |-> Nil,
      ToLocation |-> Ptr("L1"), Quantity |-> 100, UnitCost |-> Ptr(10), Reference |-> "track"],
     [Type |-> TransactionTypeInbound, ItemID |-> "A", FromLocation |-> Nil,
      ToLocation |-> Ptr("L1"), Quantity |-> 100, UnitCost |-> Ptr(20), Reference |-> "track"],
     [Type |-> TransactionTypeInbound, ItemID |-> "A", FromLocation |-> Nil,
      ToLocation |-> Ptr("L2"), Quantity |-> 100, UnitCost |-> Ptr(40), Reference |-> "track"],
     [Type |-> TransactionTypeTransfer, ItemID |-> "A", FromLocation |-> Ptr("L2"),
      ToLocation |-> Ptr("L1"), Quantity |-> 50, UnitCost |-> Ptr(20), Reference |-> "track"],
     [Type |-> TransactionTypeInbound, ItemID |-> "A", FromLocation |-> Nil,
      ToLocation |-> Ptr("L1"), Quantity |-> 100, UnitCost |-> Nil, Reference |-> "ref1"]}

ReportJournals == UNION {[1..n -> LayerEntries] : n \in 0..MaxLayers}

\* item A is on hand at both locations, items B and C at L1 or not at all
ReportQuantities == [A |-> {-10, 0, 150, 160, 250}, B |-> {0, 100}, C |-> {0, 20, 60}]

ReportStocks ==
    {[k \in {Key("A", "L1"), Key("A", "L2")}
            \cup {Key(i, "L1") : i \in {j \in {"B", "C"} : q[j] # 0}} |->
        IF k = Key("A", "L2") THEN NewStock("A", "L2", 50)
        ELSE NewStock(k[1], "L1", q[k[1]])] :
     q \in [A : ReportQuantities.A, B : ReportQuantities.B, C : ReportQuantities.C]}

ValuationMethods ==
    {ValuationMethodFIFO, ValuationMethodLIFO, ValuationMethodAverage,
     ValuationMethodStandard, "NONE"}

InitReport ==
    /\ config = [AllowNegativeStock |-> TRUE, LowStockThreshold |-> DefaultLowStockThreshold]
    /\ stocks \in ReportStocks
    /\ journal \in ReportJournals
    /\ alerts = <<>>
    /\ events = <<>>
    /\ pc = [p \in Procs |-> "idle"]
    /\ op = [p \in Procs |-> NoCall]
    /\ cur = [p \in Procs |-> NoCall]
    /\ leg = [p \in Procs |-> "none"]
    /\ legErr = [p \in Procs |-> "ok"]
    /\ local = [p \in Procs |-> NoLocal]
    /\ res = [p \in Procs |-> "none"]
    /\ ret = [p \in Procs |-> NoValue]
    /\ batch = [p \in Procs |-> NoBatch]
    /\ pre = [p \in Procs |-> NoPre]
    /\ writes = [t \in OpTypes \cup {"transfer"} |-> 0]
    /\ lastWrite = NoWrite
    /\ jfailed = 0
    /\ faults = 0

NextReport ==
    \/ \E i \in {"A", "B"}, l \in Locations, m \in ValuationMethods :
          Reported("p1", Report("CalculateValue", i, l, m), CalculateValue(i, l, m))
    \/ \E l \in Locations, m \in ValuationMethods :
          Reported("p1", Report("CalculateTotalValue", "", l, m), CalculateTotalValue(l, m))
    \/ \E i \in {"A", "B"} :
          Reported("p1", Report("GetAverageCost", i, "", ""), GetAverageCost(i))
    \/ \E classification \in classifyABC(ItemValues("L1")) :
          Reported("p1", Report("CalculateABCClassification", "", "L1", ""),
                   Result("ok", classification))
    \/ \E i \in {"", "A", "X"} :
          Reported("p1", Report("GetTotalStock", i, "", ""), GetTotalStock(i))
    \/ Returned("p1")

SpecReport == InitReport /\ [][NextReport]_vars

\* ------------------------------------------------------------ properties
\* C1: of two concurrent updates of one existing record that read the same
\* version, exactly one is written and the other returns ErrVersionMismatch;
\* the stored record is the one the winner wrote.
C1_OneWriterPerVersion ==
    \A p \in Procs : \A q \in Procs \ {p} :
        (/\ pc[p] = "done" /\ pc[q] = "done"
         /\ op[p].Type \in OpTypes /\ op[q].Type \in OpTypes
         /\ op[p].ItemID = op[q].ItemID /\ op[p].LocationID = op[q].LocationID
         /\ res[p] \in {"ok", ErrVersionMismatch} /\ res[q] \in {"ok", ErrVersionMismatch}
         /\ ~local[p].isNew /\ ~local[q].isNew
         /\ local[p].stock.Version = local[q].stock.Version)
        => /\ (res[p] = "ok") # (res[q] = "ok")
           /\ res[p] = "ok" =>
                /\ res[q] = ErrVersionMismatch
                /\ GetStock(op[p].ItemID, op[p].LocationID) = local[p].stock

\* two updates of different kinds read the same version; one has been written
C1_Witness ==
    /\ pc["p1"] = "done" /\ pc["p2"] = "done"
    /\ op["p1"].Type \in OpTypes /\ op["p2"].Type \in OpTypes \ {op["p1"].Type}
    /\ op["p1"].LocationID = op["p2"].LocationID
    /\ res["p1"] = "ok" /\ res["p2"] = ErrVersionMismatch
    /\ ~local["p1"].isNew /\ ~local["p2"].isNew
    /\ local["p1"].stock.Version = local["p2"].stock.Version

\* C2: every stored record has available = quantity - reserved.
C2_AvailableInvariant ==
    \A k \in DOMAIN stocks : stocks[k].Available = stocks[k].Quantity - stocks[k].Reserved

\* a record with units reserved, written more than once, and a call that failed
C2_Witness ==
    /\ \E k \in DOMAIN stocks :
          stocks[k].Reserved > 0 /\ stocks[k].Quantity > 0 /\ stocks[k].Version >= 3
    /\ \E p \in Procs : pc[p] = "done" /\ res[p] # "ok"

\* C3: a record is created with version 1, by Add or Adjust; every accepted
\* write of a record adds exactly 1 to its version; a call that returns an
\* error changes no record; no version decreases and no record disappears.
C3_Version ==
    [][/\ \A k \in DOMAIN stocks :
            /\ k \in DOMAIN stocks'
            /\ \/ stocks'[k] = stocks[k]
               \/ stocks'[k].Version = stocks[k].Version + 1
       /\ \A k \in DOMAIN stocks' \ DOMAIN stocks :
            /\ stocks'[k].Version = 1
            /\ \E p \in Procs :
                  /\ pc[p] = "write" /\ pc'[p] # "write"
                  /\ cur[p].Type \in {"add", "adjust"}
                  /\ k = Key(cur[p].ItemID, cur[p].LocationID)
       /\ TotalWrites' # TotalWrites =>
            /\ TotalWrites' = TotalWrites + 1
            /\ Cardinality({k \in DOMAIN stocks' :
                               k \in DOMAIN stocks => stocks'[k] # stocks[k]}) = 1
       /\ stocks' # stocks => TotalWrites' # TotalWrites
       /\ \A p \in Procs :
            (pc[p] # "done" /\ pc'[p] = "done" /\ op[p].Type \in OpTypes) =>
                IF res'[p] = "ok"
                THEN \/ pc[p] = "journal"
                     \/ pc[p] = "write" /\ TotalWrites' = TotalWrites + 1
                ELSE pc[p] \in {"begin", "write"} /\ stocks' = stocks
      ]_vars

\* a record at version 3 and a call that lost the race for it
C3_Witness ==
    /\ \E k \in DOMAIN stocks : stocks[k].Version = 3
    /\ \E p \in Procs : pc[p] = "done" /\ res[p] = ErrVersionMismatch

\* C4: reserved is never negative, and quantity is never negative while
\* AllowNegativeStock is off.
C4_NonNegative ==
    \A k \in DOMAIN stocks :
        /\ stocks[k].Reserved >= 0
        /\ ~config.AllowNegativeStock => stocks[k].Quantity >= 0

\* with the policy off, a release of more than is reserved has been refused
\* on a record with no units left
C4_Witness ==
    /\ ~config.AllowNegativeStock
    /\ \E p \in Procs :
          /\ pc[p] = "done" /\ op[p].Type = "release"
          /\ res[p] = ErrInsufficientReservation
          /\ HasStock(op[p].ItemID, op[p].LocationID)
          /\ GetStock(op[p].ItemID, op[p].LocationID).Reserved = 0
          /\ GetStock(op[p].ItemID, op[p].LocationID).Version >= 2

\* C5: a successful Add raises the record's quantity by its argument, or
\* creates the record with that quantity and nothing reserved; the version goes
\* up by 1 (1 for a new record), reserved stays, no other record changes, and
\* the journal grows by the one Inbound entry of the call.
C5_Add ==
    \A p \in Procs :
        (pc[p] = "done" /\ op[p].Type = "add" /\ res[p] = "ok") =>
            LET c == op[p]
                k == Key(c.ItemID, c.LocationID)
                o == pre[p].stocks
            IN
            /\ DOMAIN stocks = DOMAIN o \cup {k}
            /\ \A j \in DOMAIN o \ {k} : stocks[j] = o[j]
            /\ IF k \in DOMAIN o
               THEN /\ stocks[k].Quantity = o[k].Quantity + c.Quantity
                    /\ stocks[k].Reserved = o[k].Reserved
                    /\ stocks[k].Version = o[k].Version + 1
               ELSE /\ stocks[k].Quantity = c.Quantity
                    /\ stocks[k].Reserved = 0
                    /\ stocks[k].Version = 1
            /\ Len(journal) = pre[p].journal + 1
            /\ journal[Len(journal)] =
                  [Type |-> TransactionTypeInbound, ItemID |-> c.ItemID,
                   FromLocation |-> Nil, ToLocation |-> Ptr(c.LocationID),
                   Quantity |-> c.Quantity, UnitCost |-> Nil, Reference |-> c.Reference]

\* an Add onto a record that has units reserved has returned
C5_Witness ==
    /\ pc["p1"] = "done" /\ op["p1"].Type = "add" /\ res["p1"] = "ok"
    /\ Key(op["p1"].ItemID, op["p1"].LocationID) \in DOMAIN pre["p1"].stocks
    /\ pre["p1"].stocks[Key(op["p1"].ItemID, op["p1"].LocationID)].Reserved > 0

\* C6: on an existing record, Remove with available >= its argument succeeds
\* and lowers quantity and available by the argument, reserved unchanged; with
\* available < its argument it returns ErrInsufficientStock and the records,
\* the journal and the alerts are as before.
C6_Remove ==
    \A p \in Procs :
        (/\ pc[p] = "done" /\ op[p].Type = "remove" /\ op[p].Quantity > 0
         /\ validateItemAndLocation(op[p].ItemID, op[p].LocationID) = "ok"
         /\ Key(op[p].ItemID, op[p].LocationID) \in DOMAIN pre[p].stocks) =>
            LET c == op[p]
                k == Key(c.ItemID, c.LocationID)
                o == pre[p].stocks
            IN
            IF o[k].Available >= c.Quantity
            THEN /\ res[p] = "ok"
                 /\ stocks[k].Quantity = o[k].Quantity - c.Quantity
                 /\ stocks[k].Available = o[k].Available - c.Quantity
                 /\ stocks[k].Reserved = o[k].Reserved
            ELSE /\ res[p] = ErrInsufficientStock
                 /\ stocks = o
                 /\ Len(journal) = pre[p].journal
                 /\ Len(alerts) = pre[p].alerts

\* a Remove of no more than the quantity, but more than is available, has failed
C6_Witness ==
    /\ pc["p1"] = "done" /\ op["p1"].Type = "remove"
    /\ res["p1"] = ErrInsufficientStock
    /\ HasStock(op["p1"].ItemID, op["p1"].LocationID)
    /\ GetStock(op["p1"].ItemID, op["p1"].LocationID).Quantity >= op["p1"].Quantity
    /\ GetStock(op["p1"].ItemID, op["p1"].LocationID).Reserved > 0

\* C7: Reserve succeeds only with its argument <= available, and
\* ReleaseReservation only with its argument <= reserved; beyond that they
\* return ErrInsufficientStock / ErrInsufficientReservation and no record
\* changes. A success moves reserved by the argument, keeps quantity and every
\* other record. ReleaseReservation(q) right after Reserve(q) succeeds and
\* brings reserved and available back to what they were before the Reserve.
C7_ReserveRelease ==
    \A p \in Procs :
        (/\ pc[p] = "done" /\ op[p].Type \in {"reserve", "release"} /\ op[p].Quantity > 0
         /\ Key(op[p].ItemID, op[p].LocationID) \in DOMAIN pre[p].stocks) =>
            LET c == op[p]
                k == Key(c.ItemID, c.LocationID)
                o == pre[p].stocks
                w == pre[p].lastWrite
                limit == IF c.Type = "reserve" THEN o[k].Available ELSE o[k].Reserved
            IN
            /\ res[p] = "ok" <=> c.Quantity <= limit
            /\ res[p] # "ok" =>
                /\ res[p] = IF c.Type = "reserve" THEN ErrInsufficientStock
                            ELSE ErrInsufficientReservation
                /\ stocks = o
            /\ res[p] = "ok" =>
                /\ DOMAIN stocks = DOMAIN o
                /\ \A j \in DOMAIN o \ {k} : stocks[j] = o[j]
                /\ stocks[k].Quantity = o[k].Quantity
                /\ stocks[k].Reserved =
                      IF c.Type = "reserve" THEN o[k].Reserved + c.Quantity
                      ELSE o[k].Reserved - c.Quantity
            /\ (/\ c.Type = "release" /\ w.call.Type = "reserve"
                /\ w.call.ItemID = c.ItemID /\ w.call.LocationID = c.LocationID
                /\ w.call.Quantity = c.Quantity) =>
                    /\ res[p] = "ok"
                    /\ stocks[k].Reserved = w.before.Reserved
                    /\ stocks[k].Available = w.before.Available

\* a ReleaseReservation that followed the Reserve of the same quantity has returned
C7_Witness ==
    /\ pc["p1"] = "done" /\ op["p1"].Type = "release" /\ res["p1"] = "ok"
    /\ pre["p1"].lastWrite.call.Type = "reserve"
    /\ pre["p1"].lastWrite.call.LocationID = op["p1"].LocationID
    /\ pre["p1"].lastWrite.call.Quantity = op["p1"].Quantity
    /\ lastWrite.call.Type = "release"

\* C8: Add(q) on a pair without a record succeeds, and the Remove(q) that
\* follows it succeeds and leaves quantity 0 and available 0.
C8_AddRemove ==
    \A p \in Procs :
        LET c == op[p]
            k == Key(c.ItemID, c.LocationID)
            w == pre[p].lastWrite
        IN
        /\ (/\ pc[p] = "done" /\ c.Type = "add" /\ c.Quantity > 0
            /\ validateItemAndLocation(c.ItemID, c.LocationID) = "ok"
            /\ k \notin DOMAIN pre[p].stocks) => res[p] = "ok"
        /\ (/\ pc[p] = "done" /\ c.Type = "remove"
            /\ w.call.Type = "add" /\ w.isNew
            /\ w.call.ItemID = c.ItemID /\ w.call.LocationID = c.LocationID
            /\ w.call.Quantity = c.Quantity) =>
                /\ res[p] = "ok"
                /\ stocks[k].Quantity = 0
                /\ stocks[k].Available = 0

\* the Remove(q) that followed the Add(q) which created the record has returned
C8_Witness ==
    /\ pc["p1"] = "done" /\ op["p1"].Type = "remove" /\ res["p1"] = "ok"
    /\ pre["p1"].lastWrite.call.Type = "add" /\ pre["p1"].lastWrite.isNew
    /\ pre["p1"].lastWrite.call.LocationID = op["p1"].LocationID
    /\ pre["p1"].lastWrite.call.Quantity = op["p1"].Quantity
    /\ lastWrite.call.Type = "remove"

\* C9: on the empty ledger Add(A, L1, 100) leaves quantity 100 at version 1;
\* from there Reserve 30 leaves reserved 30 and available 70; from there
\* Remove 50 leaves quantity 50, reserved 30, available 20; from there Remove 30
\* returns ErrInsufficientStock and leaves every record, version included, as
\* it was.
C9_Scenario ==
    \A p \in Procs :
        LET c == op[p]
            k == Key("A", "L1")
            o == pre[p].stocks
            at(q, r, a, v) == [ItemID |-> "A", LocationID |-> "L1", Quantity |-> q,
                               Reserved |-> r, Available |-> a, Version |-> v]
            first == [j \in {k} |-> at(100, 0, 100, 1)]
            second == [j \in {k} |-> at(100, 30, 70, 2)]
            third == [j \in {k} |-> at(50, 30, 20, 3)]
        IN
        (pc[p] = "done" /\ c.ItemID = "A" /\ c.LocationID = "L1") =>
            /\ (c.Type = "add" /\ c.Quantity = 100 /\ o = <<>>) =>
                    res[p] = "ok" /\ stocks = first
            /\ (c.Type = "reserve" /\ c.Quantity = 30 /\ o = first) =>
                    res[p] = "ok" /\ stocks = second
            /\ (c.Type = "remove" /\ c.Quantity = 50 /\ o = second) =>
                    res[p] = "ok" /\ stocks = third
            /\ (c.Type = "remove" /\ c.Quantity = 30 /\ o = third) =>
                    res[p] = ErrInsufficientStock /\ stocks = third

\* the last Remove of the scenario has failed: the journal holds the Add and
\* the Remove of 50, and the last record write was that Remove, after the Reserve
C9_Witness ==
    /\ pc["p1"] = "done" /\ res["p1"] = ErrInsufficientStock
    /\ op["p1"].Type = "remove" /\ op["p1"].Quantity = 30 /\ op["p1"].LocationID = "L1"
    /\ DOMAIN stocks = {Key("A", "L1")}
    /\ GetStock("A", "L1").Quantity = 50 /\ GetStock("A", "L1").Reserved = 30
    /\ GetStock("A", "L1").Available = 20 /\ GetStock("A", "L1").Version = 3
    /\ Len(journal) = 2
    /\ journal[1].Type = TransactionTypeInbound /\ journal[1].Quantity = 100
    /\ journal[2].Type = TransactionTypeOutbound /\ journal[2].Quantity = 50
    /\ lastWrite.call.Type = "remove" /\ lastWrite.before.Reserved = 30
    /\ lastWrite.before.Quantity = 100 /\ lastWrite.before.Version = 2

\* C10 as claimed: a call of Add, Remove, Adjust, Reserve or ReleaseReservation
\* leaves the journal one entry longer when it succeeds, and as long as it was
\* when it fails (a CreateTransaction that failed counts as its entry).
C10_OneEntryPerMutation ==
    \A p \in Procs :
        (pc[p] = "done" /\ op[p].Type \in OpTypes) =>
            Len(journal) + jfailed =
                pre[p].journal + pre[p].jfailed + (IF res[p] = "ok" THEN 1 ELSE 0)

\* C10, amended: every accepted record write of Add, Remove and Adjust, the
\* legs and the rollback of Transfer included, is followed by one
\* CreateTransaction, and every Transfer that succeeds by one more; the journal
\* holds one entry for each of these calls that did not fail. A call of Add,
\* Remove or Adjust leaves the journal one entry longer when it succeeds and its
\* CreateTransaction does not fail; Reserve and ReleaseReservation, and every
\* call that returns an error, leave it as long as it was.
C10_Journal ==
    /\ Len(journal) + jfailed + Cardinality({p \in Procs : pc[p] \in {"alert", "journal"}})
          = writes["add"] + writes["remove"] + writes["adjust"] + writes["transfer"]
    /\ \A p \in Procs :
          (pc[p] = "done" /\ op[p].Type \in OpTypes) =>
              /\ Len(journal) + jfailed =
                    pre[p].journal + pre[p].jfailed
                    + (IF res[p] = "ok" /\ op[p].Type \in {"add", "remove", "adjust"}
                       THEN 1 ELSE 0)
              /\ res[p] # "ok" \/ op[p].Type \in {"reserve", "release"} =>
                    Len(journal) = pre[p].journal /\ jfailed = pre[p].jfailed

\* a Reserve has succeeded and the journal, not empty, is as long as before
C10_Witness ==
    /\ pc["p1"] = "done" /\ op["p1"].Type = "reserve" /\ res["p1"] = "ok"
    /\ lastWrite.call.Type = "reserve"
    /\ Len(journal) = pre["p1"].journal
    /\ Len(journal) >= 1
    /\ writes["transfer"] + jfailed >= 1

\* C11: the journal is append-only. No step of a ledger operation, of a batch
\* or of the tracker changes or removes an entry that was written: after
\* every step the journal still starts with the journal as it was before.
C11_AppendOnly ==
    [][/\ Len(journal') >= Len(journal)
       /\ SubSeq(journal', 1, Len(journal)) = journal]_vars

\* a tracked entry lies under entries that a batch wrote after it
C11_Witness ==
    /\ Len(journal) >= 3
    /\ journal[1].Reference = "track"
    /\ pc["p1"] = "done"
    /\ op["p1"].Type = "batch"
    /\ batch["p1"].SuccessCount = 2
    /\ journal[Len(journal)].Reference = Reference("p1")

\* C12: when the storage rejects a conditional write because the version of
\* the record is no longer the one that was read, the attempt changes no
\* record, journal, alert or event, the operation fails with VersionMismatch,
\* and what the caller does next is never another attempt on that record: a
\* direct call and the Remove leg of a Transfer return, the Add leg of a
\* Transfer hands over to the compensation on the other record.
C12_VersionMismatch ==
    [][\A p \in Procs :
          LET c == cur[p]
              l == local[p]
          IN
          (/\ pc[p] = "write" /\ pc'[p] # "write"
           /\ ~l.isNew
           /\ HasStock(c.ItemID, c.LocationID)
           /\ GetStock(c.ItemID, c.LocationID).Version # l.stock.Version - 1)
          => /\ shared' = shared
             /\ writes' = writes
             /\ \/ cur'[p] = NoCall
                \/ Key(cur'[p].ItemID, cur'[p].LocationID) # Key(c.ItemID, c.LocationID)
             /\ leg[p] \in {"none", "remove"}
                   => pc'[p] = "done" /\ res'[p] = ErrVersionMismatch
             /\ leg[p] = "add"
                   => /\ pc'[p] = "begin" /\ leg'[p] = "rollback"
                      /\ legErr'[p] = ErrVersionMismatch
             /\ leg[p] = "rollback"
                   => pc'[p] = "done" /\ res'[p] = legErr[p]]_vars

\* a Remove has returned VersionMismatch: the other caller wrote the record
\* between its read and its write
C12_Witness ==
    /\ pc["p1"] = "done"
    /\ op["p1"].Type = "remove"
    /\ res["p1"] = ErrVersionMismatch
    /\ lastWrite.call.Reference = Reference("p2")
    /\ GetStock("A", "L1").Version # local["p1"].stock.Version - 1

\* the errors of a call that is refused for its arguments or for a business rule
Refusals == {ValidationError, BusinessRuleError, ErrInsufficientStock,
             ErrInsufficientReservation}

\* C13: Add, Remove, Transfer, Reserve and ReleaseReservation with a quantity
\* of zero or less fail with ValidationError, whatever the item and the
\* locations are (the check comes before any read of the catalog or of the
\* record); a call that fails with a validation or business-rule error leaves
\* every record, the journal, the alerts and the events as it found them and
\* has written nothing.
C13_Validation ==
    \A p \in Procs :
        pc[p] = "done" /\ op[p].Type # "batch" =>
            /\ (op[p].Type # "adjust" /\ op[p].Quantity <= 0) => res[p] = ValidationError
            /\ res[p] \in Refusals =>
                  /\ stocks = pre[p].stocks
                  /\ Len(journal) = pre[p].journal
                  /\ Len(alerts) = pre[p].alerts
                  /\ Len(events) = pre[p].events
                  /\ lastWrite = pre[p].lastWrite

\* a Reserve of nothing for an unknown item at an unknown location is refused
\* as invalid, with records in the storage
C13_Witness ==
    /\ pc["p1"] = "done"
    /\ op["p1"].Type = "reserve"
    /\ op["p1"].ItemID = "X" /\ op["p1"].LocationID = "LX"
    /\ op["p1"].Quantity = 0
    /\ res["p1"] = ValidationError
    /\ DOMAIN stocks # {}
    /\ Len(journal) > 0

\* the call names an item or a location that the catalog does not have
UnknownCatalogEntry(c) ==
    \/ ~GetItemOk(c.ItemID)
    \/ ~GetLocationOk(c.LocationID)
    \/ c.Type = "transfer" /\ ~GetLocationOk(c.ToLocationID)

\* the call passes the checks made on its arguments alone
ValidArguments(c) ==
    IF c.Type = "adjust" THEN c.Quantity >= 0 \/ config.AllowNegativeStock
    ELSE /\ c.Quantity > 0
         /\ c.Type = "transfer" => c.LocationID # c.ToLocationID

\* the tables are as the call of p found them
Untouched(p) ==
    /\ stocks = pre[p].stocks
    /\ Len(journal) = pre[p].journal
    /\ Len(alerts) = pre[p].alerts
    /\ Len(events) = pre[p].events

\* C14 as stated: every ledger operation that names an item or a location
\* missing from the catalog fails with the NotFound of the item or of the
\* location and changes no state.
C14_NotFound ==
    \A p \in Procs :
        (pc[p] = "done" /\ op[p].Type # "batch" /\ UnknownCatalogEntry(op[p]))
        => /\ res[p] \in {ErrItemNotFound, ErrLocationNotFound}
           /\ Untouched(p)

\* C14 as the code has it: a call that names an item or a location missing
\* from the catalog changes no state; with invalid arguments it fails with
\* ValidationError; otherwise Add, Remove, Adjust and Transfer fail with
\* ItemNotFound, or with LocationNotFound when the item is known, and Reserve
\* and ReleaseReservation, which never read the catalog, fail because the
\* record is not found.
C14_CatalogCheck ==
    \A p \in Procs :
        (pc[p] = "done" /\ op[p].Type # "batch" /\ UnknownCatalogEntry(op[p]))
        => /\ Untouched(p)
           /\ res[p] =
                IF ~ValidArguments(op[p]) THEN ValidationError
                ELSE IF op[p].Type \in {"reserve", "release"} THEN ErrStockNotFound
                ELSE IF ~GetItemOk(op[p].ItemID) THEN ErrItemNotFound
                ELSE ErrLocationNotFound

\* a Transfer to a location missing from the catalog has failed with
\* LocationNotFound and the source still holds its stock
C14_Witness ==
    /\ pc["p1"] = "done"
    /\ op["p1"].Type = "transfer"
    /\ op["p1"].ToLocationID = "LX"
    /\ res["p1"] = ErrLocationNotFound
    /\ HasStock("A", "L1")
    /\ GetStock("A", "L1").Quantity >= op["p1"].Quantity

\* C15: a call of Add, Remove or Adjust whose record write succeeded returns
\* success, even when the journal write, the alert or a publish that follows
\* failed: the record stays changed. A call whose record write failed, or that
\* was refused before it, returns the error: no journal write, alert or event
\* was made for it and the records are as they were.
C15_PrimaryDecides ==
    \A p \in Procs :
        /\ (pc[p] \in {"alert", "journal"} /\ op[p].Type \in {"add", "remove", "adjust"})
              => stocks # pre[p].stocks
        /\ (pc[p] = "done" /\ op[p].Type \in {"add", "remove", "adjust"}) =>
              /\ res[p] = "ok" <=> stocks # pre[p].stocks
              /\ res[p] = "ok" => lastWrite # pre[p].lastWrite
              /\ res[p] # "ok" =>
                    /\ Len(journal) = pre[p].journal /\ jfailed = pre[p].jfailed
                    /\ Len(alerts) = pre[p].alerts
                    /\ Len(events) = pre[p].events
                    /\ lastWrite = pre[p].lastWrite

\* a Remove has returned success although its alert and its journal entry
\* could not be written: the record is low and changed, the journal is not
C15_Witness ==
    /\ pc["p1"] = "done" /\ op["p1"].Type = "remove" /\ res["p1"] = "ok"
    /\ GetStock("A", "L1").Quantity <= config.LowStockThreshold
    /\ stocks # pre["p1"].stocks
    /\ Len(alerts) = pre["p1"].alerts
    /\ Len(journal) = pre["p1"].journal
    /\ jfailed = pre["p1"].jfailed + 1

\* the record of the destination of the Transfer of p is as the call found it
DestinationAsBefore(p, tables) ==
    LET k == Key(op[p].ItemID, op[p].ToLocationID) IN
    IF k \in DOMAIN pre[p].stocks
    THEN k \in DOMAIN tables /\ tables[k] = pre[p].stocks[k]
    ELSE k \notin DOMAIN tables

\* C16: Transfer is not atomic. When the Add leg of a Transfer has failed and
\* the write of the compensating Add is refused too, the Transfer returns the
\* error of its Add leg and leaves the source debited by the quantity (one
\* write, the Remove) and the destination not credited.
C16_NotAtomic ==
    [][\A p \in Procs :
          (op[p].Type = "transfer" /\ leg[p] = "rollback"
           /\ pc[p] = "write" /\ pc'[p] = "done")
          => LET k == Key(op[p].ItemID, op[p].LocationID) IN
             /\ res'[p] = legErr[p] /\ res'[p] \notin {"ok", "none"}
             /\ stocks' = stocks
             /\ stocks'[k].Quantity = pre[p].stocks[k].Quantity - op[p].Quantity
             /\ stocks'[k].Version = pre[p].stocks[k].Version + 1
             /\ DestinationAsBefore(p, stocks')]_vars

\* the final state of such a Transfer: an error, the source 30 short, nothing
\* at the destination
C16_Witness ==
    /\ pc["p1"] = "done" /\ op["p1"].Type = "transfer" /\ res["p1"] = StorageError
    /\ op["p1"].LocationID = "L1" /\ op["p1"].ToLocationID = "L2"
    /\ GetStock("A", "L1").Quantity = pre["p1"].stocks[Key("A", "L1")].Quantity - 30
    /\ ~HasStock("A", "L2")
    /\ lastWrite.call.Type = "remove" /\ lastWrite.call.Reference = Reference("p1")
    /\ faults = 2

\* C17: when the Remove leg of a Transfer has succeeded and its Add leg fails,
\* the Transfer makes one compensating Add of the quantity onto the source,
\* with the reference of the Transfer followed by "_ROLLBACK". The
\* compensation is followed by the return of the Transfer and by nothing
\* else, and the Transfer returns the error of its Add leg whether the
\* compensation succeeded or not. When it succeeded the source holds the
\* quantity it held before the Transfer, after two writes, and the
\* destination is as it was.
C17_Compensation ==
    [][\A p \in Procs :
          LET t == op[p]
              k == Key(t.ItemID, t.LocationID)
          IN
          t.Type = "transfer" =>
            /\ (leg[p] = "add" /\ pc[p] \in {"begin", "write"}
                /\ pc'[p] \notin {"write", "journal"}
                /\ (pc'[p] # pc[p] \/ leg'[p] # leg[p]))
                  => /\ leg'[p] = "rollback" /\ pc'[p] = "begin"
                     /\ legErr'[p] \notin {"ok", "none"}
                     /\ cur'[p] = Prim("add", t.ItemID, t.LocationID, t.Quantity,
                                       t.Reference \o "_ROLLBACK")
                     /\ stocks[k].Quantity = pre[p].stocks[k].Quantity - t.Quantity
            /\ (leg[p] = "rollback" /\ leg'[p] # "rollback")
                  => /\ pc'[p] = "done" /\ leg'[p] = "none"
                     /\ res'[p] = legErr[p] /\ res'[p] \notin {"ok", "none"}
            /\ (leg[p] = "rollback" /\ pc[p] = "journal" /\ pc'[p] = "done")
                  => /\ stocks'[k].Quantity = pre[p].stocks[k].Quantity
                     /\ stocks'[k].Version = pre[p].stocks[k].Version + 2
                     /\ DestinationAsBefore(p, stocks')
                     /\ lastWrite.call.Reference = t.Reference \o "_ROLLBACK"
                     /\ journal' # journal =>
                           /\ journal'[Len(journal')].Reference = t.Reference \o "_ROLLBACK"
                           /\ journal'[Len(journal')].ToLocation = Ptr(t.LocationID)
                           /\ journal'[Len(journal')].Quantity = t.Quantity]_vars

\* a Transfer has returned the error of its Add leg after a compensation that
\* succeeded: the source is back at its quantity, two versions later
C17_Witness ==
    /\ pc["p1"] = "done" /\ op["p1"].Type = "transfer" /\ res["p1"] = StorageError
    /\ GetStock("A", "L1").Quantity = pre["p1"].stocks[Key("A", "L1")].Quantity
    /\ GetStock("A", "L1").Version = pre["p1"].stocks[Key("A", "L1")].Version + 2
    /\ ~HasStock("A", "L2")
    /\ journal[Len(journal)].Reference = Reference("p1") \o "_ROLLBACK"

\* C20: Adjust sets the quantity of the record to newQuantity, whatever it was:
\* a record that did not exist is created with version 1 and nothing reserved,
\* an existing one keeps its reservation and gets the next version. It writes
\* one journal entry of type Adjust whose quantity is newQuantity minus the old
\* quantity (the old quantity of a new record being 0), which may be zero or
\* negative. With newQuantity below zero and the negative-stock policy off it
\* fails with ValidationError and changes nothing.
C20_Adjust ==
    \A p \in Procs :
        (pc[p] = "done" /\ op[p].Type = "adjust") =>
            LET c == op[p]
                k == Key(c.ItemID, c.LocationID)
                isNew == k \notin DOMAIN pre[p].stocks
                oldQuantity == IF isNew THEN 0 ELSE pre[p].stocks[k].Quantity
                tx == journal[Len(journal)]
            IN
            /\ (c.Quantity < 0 /\ ~config.AllowNegativeStock)
                  => res[p] = ValidationError /\ Untouched(p)
            /\ res[p] = "ok" =>
                  /\ stocks[k].Quantity = c.Quantity
                  /\ stocks[k].Available = c.Quantity - stocks[k].Reserved
                  /\ IF isNew
                     THEN stocks[k].Version = 1 /\ stocks[k].Reserved = 0
                     ELSE /\ stocks[k].Version = pre[p].stocks[k].Version + 1
                          /\ stocks[k].Reserved = pre[p].stocks[k].Reserved
                  /\ \A j \in DOMAIN stocks \ {k} :
                        j \in DOMAIN pre[p].stocks /\ stocks[j] = pre[p].stocks[j]
                  /\ Len(journal) = pre[p].journal + 1
                  /\ tx.Type = TransactionTypeAdjust
                  /\ tx.ItemID = c.ItemID /\ tx.ToLocation = Ptr(c.LocationID)
                  /\ tx.Quantity = c.Quantity - oldQuantity
                  /\ tx.Reference = c.Reference
                  /\ Len(alerts) = pre[p].alerts

\* an Adjust to zero of a record that held a reservation has written an entry
\* with a negative quantity
C20_Witness ==
    /\ pc["p1"] = "done" /\ op["p1"].Type = "adjust" /\ res["p1"] = "ok"
    /\ op["p1"].Quantity = 0
    /\ GetStock("A", "L1").Quantity = 0
    /\ GetStock("A", "L1").Reserved > 0
    /\ journal[Len(journal)].Quantity < 0

\* the operation is one that ExecuteBatch, or the operation it calls, refuses
\* whatever the records are
AlwaysFails(o) ==
    \/ o.Type \notin {"add", "remove", "transfer", "adjust"}
    \/ o.Type = "transfer" /\ o.ToLocationID = Nil
    \/ o.Type = "adjust" /\ o.Quantity < 0 /\ ~config.AllowNegativeStock
    \/ o.Type # "adjust" /\ o.Quantity <= 0

\* the indexes of the operations of the batch b that its error list names
FailedIndexes(b) == {b.Errors[n].OperationIndex : n \in DOMAIN b.Errors}

\* journal entries a ledger operation writes when it succeeds
EntriesOf(o) == IF o.Type = "transfer" THEN 3 ELSE 1

\* record writes a ledger operation makes when it succeeds
WritesOf(o) == IF o.Type = "transfer" THEN 2 ELSE 1

\* the sum of f[n] over the set S of indexes
RECURSIVE SumOver(_, _)
SumOver(f, S) ==
    IF S = {} THEN 0
    ELSE LET n == CHOOSE x \in S : TRUE IN f[n] + SumOver(f, S \ {n})

\* the sum of the versions of the records of a stocks table
VersionSum(tables) == SumOver([k \in DOMAIN tables |-> tables[k].Version], DOMAIN tables)

\* C18: the result of ExecuteBatch over N operations of which k failed has
\* SuccessCount = N - k and FailureCount = k, and its error list has exactly
\* one entry for each operation that failed, with the index of the operation
\* (from 0), in ascending order. The operations outside the list are those
\* that took effect: the journal has grown by their entries. The status is
\* Failed when k > 0 and Completed otherwise, the empty batch included, and
\* the call itself returns no error.
C18_BatchResult ==
    \A p \in Procs :
        (pc[p] = "done" /\ op[p].Type = "batch") =>
            LET b == batch[p]
                N == Len(b.Operations)
                ok == (0..(N - 1)) \ FailedIndexes(b)
                written == {n \in (pre[p].journal + 1)..Len(journal) :
                               journal[n].Reference # "track"}
            IN
            /\ res[p] = "ok"
            /\ b.FailureCount = Len(b.Errors)
            /\ b.SuccessCount = N - b.FailureCount
            /\ b.FailureCount = Cardinality(FailedIndexes(b))
            /\ FailedIndexes(b) \subseteq 0..(N - 1)
            /\ \A m, n \in DOMAIN b.Errors :
                  m < n => b.Errors[m].OperationIndex < b.Errors[n].OperationIndex
            /\ \A n \in 1..N : AlwaysFails(b.Operations[n]) => (n - 1) \in FailedIndexes(b)
            /\ Cardinality(written)
                  = SumOver([n \in ok |-> EntriesOf(b.Operations[n + 1])], ok)
            /\ b.Status = IF b.FailureCount > 0 THEN "failed" ELSE "completed"

\* a batch whose first operation failed and whose second succeeded: one error,
\* with index 0, one success, status Failed
C18_Witness ==
    /\ pc["p1"] = "done" /\ op["p1"].Type = "batch"
    /\ Len(batch["p1"].Operations) = 2
    /\ batch["p1"].Operations[2].Type = "add"
    /\ batch["p1"].Errors = <<[OperationIndex |-> 0, Error |-> BatchError]>>
    /\ batch["p1"].SuccessCount = 1
    /\ batch["p1"].Status = "failed"

\* C19: ExecuteBatch attempts its operations one by one in the order of the
\* list, each once, whatever the earlier ones returned: when it returns it has
\* attempted all of them. What the operations that succeeded wrote is kept
\* when a later one fails: the records carry one version for each of their
\* writes. Every batch that was started returns.
C19_BatchRuns ==
    /\ [](\A p \in Procs :
            (op[p].Type = "batch" /\ pc[p] # "idle") =>
                LET b == batch[p]
                    ok == (0..(b.i - 1)) \ FailedIndexes(b)
                IN
                /\ b.attempted = [n \in 1..Len(b.attempted) |-> n - 1]
                /\ Len(b.attempted) = IF pc[p] \in {"batch", "done"} THEN b.i ELSE b.i + 1
                /\ pc[p] = "done" => b.i = Len(b.Operations)
                /\ pc[p] \in {"batch", "done"} =>
                      VersionSum(stocks) = VersionSum(pre[p].stocks)
                          + SumOver([n \in ok |-> WritesOf(b.Operations[n + 1])], ok))
    /\ \A p \in Procs : (pc[p] = "batch") ~> (pc[p] = "done")

\* a batch whose first operation succeeded and whose second failed has
\* returned: both were attempted and the record of the first is kept
C19_Witness ==
    /\ pc["p1"] = "done" /\ op["p1"].Type = "batch"
    /\ batch["p1"].attempted = <<0, 1>>
    /\ batch["p1"].Errors = <<[OperationIndex |-> 1, Error |-> ErrInsufficientStock]>>
    /\ batch["p1"].SuccessCount = 1
    /\ stocks # pre["p1"].stocks

\* C21: a Remove whose record write succeeds goes on to the low-stock alert
\* exactly when the quantity it leaves is at or below the configured
\* threshold. The alert step appends one new active alert for the item and the
\* location with the quantity left, whatever alerts are active already, unless
\* the alert storage fails; no other step of Add or Remove adds an alert.
C21_LowStockAlert ==
    [][\A p \in Procs :
          LET c == cur[p]
              k == Key(c.ItemID, c.LocationID)
          IN
          /\ (pc[p] = "write" /\ c.Type = "remove" /\ stocks' # stocks)
                => (pc'[p] = "alert" <=> stocks'[k].Quantity <= config.LowStockThreshold)
          /\ (pc[p] = "alert" /\ pc'[p] # "alert")
                => \/ alerts' = alerts /\ faults' = faults + 1
                   \/ /\ Len(alerts') = Len(alerts) + 1
                      /\ SubSeq(alerts', 1, Len(alerts)) = alerts
                      /\ alerts'[Len(alerts')] =
                            [Type |-> AlertTypeLowStock, ItemID |-> c.ItemID,
                             LocationID |-> c.LocationID,
                             CurrentQty |-> stocks[k].Quantity,
                             Threshold |-> config.LowStockThreshold,
                             IsActive |-> TRUE, ResolvedAt |-> Nil]
                      /\ stocks[k].Quantity <= config.LowStockThreshold
                      /\ faults' = faults
          /\ (pc[p] \in {"begin", "write", "journal"} /\ pc'[p] # pc[p])
                => alerts' = alerts]_vars

\* two Removes in a row have left the quantity at and below the threshold: two
\* alerts for the same item and location are active at once
C21_Witness ==
    /\ Len(alerts) = 2
    /\ GetActiveAlerts("L1") = {1, 2}
    /\ alerts[1].ItemID = alerts[2].ItemID
    /\ alerts[1].CurrentQty = config.LowStockThreshold
    /\ alerts[2].CurrentQty < config.LowStockThreshold
    /\ pc["p1"] = "done" /\ op["p1"].Type = "remove" /\ res["p1"] = "ok"

\* C22 as stated: ResolveAlert on an active alert marks it inactive with a
\* resolved timestamp and leaves the other alerts alone; on an alert that is
\* inactive already, or on an id that no alert has, it returns an error and
\* changes nothing.
C22_ResolveOnce ==
    [][\A p \in Procs :
          (pc[p] = "idle" /\ pc'[p] = "done" /\ op'[p].Type = "resolve")
          => LET id == op'[p].AlertID IN
             IF id \in DOMAIN alerts /\ alerts[id].IsActive
             THEN /\ res'[p] = "ok"
                  /\ alerts' = [alerts EXCEPT ![id] = [@ EXCEPT !.IsActive = FALSE,
                                                                  !.ResolvedAt = Ptr(Now)]]
             ELSE /\ res'[p] # "ok"
                  /\ alerts' = alerts]_vars

\* the cost layers of an item at a location, oldest first: the places in the
\* journal of the Inbound and Transfer entries credited to the location with a
\* positive unit cost
Layers(itemID, locationID) ==
    LET at == {n \in DOMAIN journal :
                 /\ journal[n].ItemID = itemID
                 /\ journal[n].Type \in {TransactionTypeInbound, TransactionTypeTransfer}
                 /\ journal[n].ToLocation = Ptr(locationID)
                 /\ journal[n].UnitCost # Nil /\ journal[n].UnitCost[1] > 0}
    IN [i \in 1..Cardinality(at) |->
           CHOOSE n \in at : Cardinality({m \in at : m < n}) = i - 1]

\* the value of Q units taken from the layers in the order given: layer i
\* gives what is left of Q after the layers before it, at most its quantity
LayerValue(layers, Q) ==
    LET before(i) == SumValues([j \in 1..(i - 1) |-> journal[layers[j]].Quantity], 1..(i - 1))
        consumed(i) == IF Q - before(i) <= 0 THEN 0
                       ELSE Min(journal[layers[i]].Quantity, Q - before(i))
    IN SumValues([i \in DOMAIN layers |-> journal[layers[i]].UnitCost[1] * consumed(i)],
                 DOMAIN layers)

\* the layers (100 @ 10) then (100 @ 20) at L1 and 150 units on hand
TwoLayerExample ==
    /\ Len(journal) = 2
    /\ Layers("A", "L1") = <<1, 2>>
    /\ journal[1].Quantity = 100 /\ journal[1].UnitCost = Ptr(10)
    /\ journal[2].Quantity = 100 /\ journal[2].UnitCost = Ptr(20)
    /\ GetStock("A", "L1").Quantity = 150

\* C23: CalculateValue by FIFO returns, for an on-hand quantity Q > 0, the sum
\* of unit cost times consumed quantity over the cost layers of the item at
\* the location taken oldest first until Q is covered, the last one in part;
\* by LIFO the same with the layers taken newest first; for Q <= 0 it returns
\* 0. Layers (100 @ 10) then (100 @ 20) with Q = 150 give 2000 and 2500.
C23_FifoLifo ==
    /\ \A p \in Procs :
          (/\ pc[p] = "done" /\ op[p].Type = "CalculateValue"
           /\ op[p].Method \in {ValuationMethodFIFO, ValuationMethodLIFO}
           /\ HasStock(op[p].ItemID, op[p].LocationID))
          => LET Q == GetStock(op[p].ItemID, op[p].LocationID).Quantity
                 layers == Layers(op[p].ItemID, op[p].LocationID)
             IN /\ res[p] = "ok"
                /\ ret[p] = Whole(IF Q <= 0 THEN 0
                                   ELSE IF op[p].Method = ValuationMethodFIFO
                                   THEN LayerValue(layers, Q)
                                   ELSE LayerValue([i \in DOMAIN layers |->
                                                        layers[Len(layers) + 1 - i]], Q))
    /\ TwoLayerExample =>
          /\ CalculateValue("A", "L1", ValuationMethodFIFO) = Result("ok", Whole(2000))
          /\ CalculateValue("A", "L1", ValuationMethodLIFO) = Result("ok", Whole(2500))

\* the LIFO value of the example has been returned
C23_Witness ==
    /\ TwoLayerExample
    /\ pc["p1"] = "done" /\ op["p1"].Type = "CalculateValue"
    /\ op["p1"].ItemID = "A" /\ op["p1"].LocationID = "L1"
    /\ op["p1"].Method = ValuationMethodLIFO
    /\ ret["p1"] = Whole(2500)

\* the quantity held by the cost layers
LayeredQuantity(layers) ==
    SumValues([i \in DOMAIN layers |-> journal[layers[i]].Quantity], DOMAIN layers)

\* two of the layers carry different unit costs
CostsDiffer(layers) ==
    \E i, j \in DOMAIN layers : journal[layers[i]].UnitCost # journal[layers[j]].UnitCost

\* C24 as stated: whenever the costs of the layers differ and the on-hand
\* quantity is more than the layer taken first holds, in either order, the
\* FIFO value and the LIFO value are different.
C24_AlwaysDiffer ==
    \A p \in Procs :
        (/\ pc[p] = "done" /\ op[p].Type = "CalculateValue"
         /\ op[p].Method = ValuationMethodFIFO
         /\ HasStock(op[p].ItemID, op[p].LocationID))
        => LET Q == GetStock(op[p].ItemID, op[p].LocationID).Quantity
               layers == Layers(op[p].ItemID, op[p].LocationID)
           IN (/\ Len(layers) > 1 /\ CostsDiffer(layers)
               /\ Q > journal[layers[1]].Quantity
               /\ Q > journal[layers[Len(layers)]].Quantity)
              => ret[p] # CalculateValue(op[p].ItemID, op[p].LocationID,
                                         ValuationMethodLIFO).value

\* C24 as the code has it: with two layers of different unit cost the FIFO and
\* the LIFO value are different when the on-hand quantity is positive and less
\* than the two layers hold together; whatever the layers are, the two values
\* are equal when the on-hand quantity is at least what the layers hold, or
\* not positive.
C24_DifferWithinLayers ==
    \A p \in Procs :
        (/\ pc[p] = "done" /\ op[p].Type = "CalculateValue"
         /\ op[p].Method = ValuationMethodFIFO
         /\ HasStock(op[p].ItemID, op[p].LocationID))
        => LET Q == GetStock(op[p].ItemID, op[p].LocationID).Quantity
               layers == Layers(op[p].ItemID, op[p].LocationID)
               lifo == CalculateValue(op[p].ItemID, op[p].LocationID, ValuationMethodLIFO).value
           IN /\ (Len(layers) = 2 /\ CostsDiffer(layers)
                  /\ 0 < Q /\ Q < LayeredQuantity(layers)) => ret[p] # lifo
              /\ (Q <= 0 \/ Q >= LayeredQuantity(layers)) => ret[p] = lifo

\* 250 units on hand over the layers (100 @ 10) and (100 @ 20): the FIFO value
\* returned is the LIFO value, 3000
C24_Witness ==
    /\ pc["p1"] = "done" /\ op["p1"].Type = "CalculateValue"
    /\ op["p1"].ItemID = "A" /\ op["p1"].LocationID = "L1"
    /\ op["p1"].Method = ValuationMethodFIFO
    /\ Len(Layers("A", "L1")) = 2 /\ CostsDiffer(Layers("A", "L1"))
    /\ LayeredQuantity(Layers("A", "L1")) = 200
    /\ GetStock("A", "L1").Quantity = 250
    /\ ret["p1"] = Whole(3000)
    /\ CalculateValue("A", "L1", ValuationMethodLIFO).value = Whole(3000)

\* the places in the journal of the Inbound entries of an item that carry a
\* positive unit cost, whatever location they are credited to
InboundPlaces(itemID) ==
    {n \in DOMAIN journal :
        /\ journal[n].ItemID = itemID
        /\ journal[n].Type = TransactionTypeInbound
        /\ journal[n].UnitCost # Nil /\ journal[n].UnitCost[1] > 0}

InboundCost(itemID) ==
    SumValues([n \in InboundPlaces(itemID) |-> journal[n].UnitCost[1] * journal[n].Quantity],
              InboundPlaces(itemID))

InboundQuantity(itemID) ==
    SumValues([n \in InboundPlaces(itemID) |-> journal[n].Quantity], InboundPlaces(itemID))

\* C25: GetAverageCost returns the total cost over the total quantity of all
\* Inbound entries of the item with a positive unit cost, at every location,
\* and fails when there is none; the average valuation of a positive on-hand
\* quantity is that average times the quantity at the requested location,
\* while FIFO and LIFO value a location that no layer was credited to at 0
\* whatever was received elsewhere.
C25_AverageAllLocations ==
    \A p \in Procs :
        pc[p] = "done" =>
            LET item == op[p].ItemID
                loc == op[p].LocationID
            IN /\ op[p].Type = "GetAverageCost" =>
                     IF InboundPlaces(item) = {} THEN res[p] = ErrInsufficientData
                     ELSE /\ res[p] = "ok"
                          /\ ret[p] = Amount(InboundCost(item), InboundQuantity(item))
               /\ (/\ op[p].Type = "CalculateValue" /\ op[p].Method = ValuationMethodAverage
                   /\ HasStock(item, loc) /\ GetStock(item, loc).Quantity > 0) =>
                     IF InboundPlaces(item) = {} THEN res[p] = ErrInsufficientData
                     ELSE /\ res[p] = "ok"
                          /\ ret[p] = Amount(InboundCost(item) * GetStock(item, loc).Quantity,
                                             InboundQuantity(item))
               /\ (/\ op[p].Type = "CalculateValue"
                   /\ op[p].Method \in {ValuationMethodFIFO, ValuationMethodLIFO}
                   /\ HasStock(item, loc) /\ Layers(item, loc) = <<>>) =>
                     res[p] = "ok" /\ ret[p] = Whole(0)

\* 150 units at L1 after (100 @ 10) was received at L1 and (100 @ 40) at L2:
\* the average cost is 25 and the value 3750
C25_Witness ==
    /\ pc["p1"] = "done" /\ op["p1"].Type = "CalculateValue"
    /\ op["p1"].ItemID = "A" /\ op["p1"].LocationID = "L1"
    /\ op["p1"].Method = ValuationMethodAverage
    /\ GetStock("A", "L1").Quantity = 150
    /\ \E n \in InboundPlaces("A") :
          journal[n].ToLocation = Ptr("L2") /\ journal[n].UnitCost = Ptr(40)
    /\ \E n \in InboundPlaces("A") :
          journal[n].ToLocation = Ptr("L1") /\ journal[n].UnitCost = Ptr(10)
    /\ ret["p1"] = Whole(3750)

\* what one item adds to the value of a location: its value when it is on hand
\* there with a positive quantity and can be valued, nothing otherwise
ValueAdded(itemID, locationID, method) ==
    IF /\ HasStock(itemID, locationID)
       /\ GetStock(itemID, locationID).Quantity > 0
       /\ CalculateValue(itemID, locationID, method).err = "ok"
    THEN CalculateValue(itemID, locationID, method).value
    ELSE Whole(0)

\* C26: CalculateTotalValue succeeds and returns the sum of the values of
\* the records of the location with a positive quantity whose valuation
\* succeeds, an item that cannot be valued adding nothing; and no valuation
\* call changes a StockRecord, a journal entry or an alert.
C26_TotalValue ==
    [][\A p \in Procs :
          (pc[p] = "idle" /\ pc'[p] = "done" /\ op'[p].Type \in {"CalculateValue", "CalculateTotalValue", "GetAverageCost"})
          => /\ UNCHANGED <<stocks, journal, alerts>>
             /\ op'[p].Type = "CalculateTotalValue" =>
                   /\ res'[p] = "ok"
                   /\ ret'[p] = AmountAdd(
                                   AmountAdd(ValueAdded("A", op'[p].LocationID, op'[p].Method),
                                             ValueAdded("B", op'[p].LocationID, op'[p].Method)),
                                   ValueAdded("C", op'[p].LocationID, op'[p].Method))]_vars

\* the average value of L1 where item B is on hand and never had an inbound
\* entry: the total is the value of item A alone
C26_Witness ==
    /\ pc["p1"] = "done" /\ op["p1"].Type = "CalculateTotalValue"
    /\ op["p1"].LocationID = "L1" /\ op["p1"].Method = ValuationMethodAverage
    /\ HasStock("B", "L1") /\ GetStock("B", "L1").Quantity > 0
    /\ CalculateValue("B", "L1", ValuationMethodAverage).err # "ok"
    /\ CalculateValue("A", "L1", ValuationMethodAverage).err = "ok"
    /\ res["p1"] = "ok"
    /\ ret["p1"] = CalculateValue("A", "L1", ValuationMethodAverage).value
    /\ ret["p1"] # Whole(0)

\* the orders of a set of items in which the estimated value never increases
Descending(S, locationID) ==
    {s \in [1..Cardinality(S) -> S] :
        /\ \A i \in S : \E n \in DOMAIN s : s[n] = i
        /\ \A n \in DOMAIN s : n > 1 =>
              ItemValues(locationID)[s[n - 1]] >= ItemValues(locationID)[s[n]]}

\* the value of the items up to and including place n of an order
RECURSIVE Cumulative(_, _, _)
Cumulative(s, n, locationID) ==
    IF n = 0 THEN 0
    ELSE ItemValues(locationID)[s[n]] + Cumulative(s, n - 1, locationID)

\* C27: the classification returned for a location covers its items of the
\* catalog and follows from an order of them by estimated value (quantity x 10
\* x unit cost), highest first: an item is in class A when the share of the
\* total held by the items up to and including it is at most 80%, in class B
\* when it is at most 95%, in class C otherwise; there is no share of a total
\* of zero, and the class is C.
C27_AbcClasses ==
    \A p \in Procs :
        (pc[p] = "done" /\ op[p].Type = "CalculateABCClassification") =>
            LET loc == op[p].LocationID
                S == DOMAIN ItemValues(loc)
                total == Cumulative(CHOOSE s \in Descending(S, loc) : TRUE, Cardinality(S), loc)
            IN /\ res[p] = "ok"
               /\ DOMAIN ret[p] = S
               /\ \E s \in Descending(S, loc) :
                     \A n \in DOMAIN s :
                        LET part == Cumulative(s, n, loc)
                            share(percent) ==
                                \/ total > 0 /\ 100 * part <= percent * total
                                \/ total < 0 /\ 100 * part >= percent * total
                        IN ret[p][s[n]] = IF share(80) THEN "A"
                                          ELSE IF share(95) THEN "B" ELSE "C"

\* 160 of A (16000, 80% of 20000), 100 of B (3000, 95% with A) and 20 of C
\* (1000): the classes are A, B and C
C27_Witness ==
    /\ pc["p1"] = "done" /\ op["p1"].Type = "CalculateABCClassification"
    /\ op["p1"].LocationID = "L1"
    /\ DOMAIN ItemValues("L1") = {"A", "B", "C"}
    /\ GetStock("A", "L1").Quantity = 160
    /\ GetStock("B", "L1").Quantity = 100
    /\ GetStock("C", "L1").Quantity = 20
    /\ ret["p1"] = [i \in {"A", "B", "C"} |-> i]

\* C28: GetTotalStock called with an empty item id fails with a
\* ValidationError, not with ErrItemNotFound or a storage error.
C28_EmptyItemID ==
    \A p \in Procs :
        (pc[p] = "done" /\ op[p].Type = "GetTotalStock" /\ op[p].ItemID = "")
        => res[p] = ValidationError

\* C29: with negative stock not allowed no Remove, direct or as a leg of a
\* Transfer, ends in a BusinessRuleError: a Remove whose record has the units
\* available goes on to write a quantity that is at least the reserved
\* quantity, which is not negative, and any other Remove fails before that.
C29_NoNegativeStockViolation ==
    [][\A p \in Procs :
          (/\ ~config.AllowNegativeStock
           /\ pc[p] = "begin" /\ cur[p].Type = "remove"
           /\ <<pc[p], cur[p], res[p], leg[p]>>' # <<pc[p], cur[p], res[p], leg[p]>>)
          => /\ res'[p] # BusinessRuleError
             /\ legErr'[p] # BusinessRuleError
             /\ IF /\ HasStock(cur[p].ItemID, cur[p].LocationID)
                   /\ GetStock(cur[p].ItemID, cur[p].LocationID).Available >= cur[p].Quantity
                   /\ cur[p].Quantity > 0
                   /\ validateItemAndLocation(cur[p].ItemID, cur[p].LocationID) = "ok"
                THEN /\ pc'[p] = "write"
                     /\ local'[p].stock.Quantity
                           = GetStock(cur[p].ItemID, cur[p].LocationID).Quantity - cur[p].Quantity
                     /\ local'[p].stock.Quantity >= local'[p].stock.Reserved
                     /\ local'[p].stock.Reserved >= 0
                ELSE pc'[p] # "write"]_vars

\* a Remove that leaves exactly the reserved units on its way to the storage
C29_Witness ==
    /\ ~config.AllowNegativeStock
    /\ pc["p1"] = "write" /\ cur["p1"].Type = "remove"
    /\ local["p1"].stock.Reserved > 0
    /\ local["p1"].stock.Quantity = local["p1"].stock.Reserved

\* more units of the record are reserved than it holds
OverReserved(itemID, locationID) ==
    /\ HasStock(itemID, locationID)
    /\ GetStock(itemID, locationID).Reserved > GetStock(itemID, locationID).Quantity

\* a direct Adjust to a quantity from 0 up to, not including, what was
\* reserved when it was called has returned
AdjustedBelowReserved(p) ==
    /\ pc[p] = "done" /\ op[p].Type = "adjust"
    /\ Key(op[p].ItemID, op[p].LocationID) \in DOMAIN pre[p].stocks
    /\ op[p].Quantity >= 0
    /\ op[p].Quantity < pre[p].stocks[Key(op[p].ItemID, op[p].LocationID)].Reserved

\* C30: an Adjust to a quantity from 0 up to, not including, the reserved
\* quantity succeeds, leaves the reserved quantity as it was and the available
\* quantity below zero; and as long as more is reserved than the record holds
\* every direct Remove and Reserve of a valid quantity on that record fails
\* with ErrInsufficientStock.
C30_AdjustBelowReserved ==
    [][\A p \in Procs :
          /\ AdjustedBelowReserved(p)' =>
                LET k == Key(op'[p].ItemID, op'[p].LocationID) IN
                /\ res'[p] = "ok"
                /\ stocks'[k].Quantity = op'[p].Quantity
                /\ stocks'[k].Reserved = pre'[p].stocks[k].Reserved
                /\ stocks'[k].Available = op'[p].Quantity - stocks'[k].Reserved
                /\ stocks'[k].Available < 0
          /\ (/\ pc[p] = "begin" /\ pc'[p] # "begin"
              /\ op[p].Type \in {"remove", "reserve"}
              /\ op[p].Quantity > 0
              /\ OverReserved(op[p].ItemID, op[p].LocationID))
             => /\ pc'[p] = "done"
                /\ res'[p] = ErrInsufficientStock
                /\ UNCHANGED <<stocks, journal>>]_vars

\* a Reserve has failed on a record that an Adjust to 0 left with units
\* reserved
C30_Witness ==
    /\ pc["p1"] = "done" /\ op["p1"].Type = "reserve"
    /\ res["p1"] = ErrInsufficientStock
    /\ OverReserved("A", "L1")
    /\ GetStock("A", "L1").Quantity = 0
    /\ GetStock("A", "L1").Available < 0
    /\ lastWrite.call.Type = "adjust"

\* C31: a direct Transfer that returns success has taken the quantity from the
\* record of the source and put it on the record of the destination, a new
\* one when there was none: the total quantity of the item over the locations
\* and the reserved quantity of both records are as before. A Transfer that
\* returns from its Remove leg has failed and has changed no record.
C31_Conservation ==
    [][\A p \in Procs :
          (op[p].Type = "transfer" /\ pc[p] # "done" /\ pc'[p] = "done") =>
             LET t == op[p]
                 from == Key(t.ItemID, t.LocationID)
                 to == Key(t.ItemID, t.ToLocationID)
                 before == pre[p].stocks
                 Quantity(table, k) == IF k \in DOMAIN table THEN table[k].Quantity ELSE 0
                 Reserved(table, k) == IF k \in DOMAIN table THEN table[k].Reserved ELSE 0
                 Total(table) ==
                    SumOver([l \in Locations |-> Quantity(table, Key(t.ItemID, l))], Locations)
             IN /\ res'[p] = "ok" =>
                      /\ Quantity(stocks', from) = Quantity(before, from) - t.Quantity
                      /\ Quantity(stocks', to) = Quantity(before, to) + t.Quantity
                      /\ Total(stocks') = Total(before)
                      /\ Reserved(stocks', from) = Reserved(before, from)
                      /\ Reserved(stocks', to) = Reserved(before, to)
                      /\ to \in DOMAIN stocks'
                /\ leg[p] = "remove" => res'[p] # "ok" /\ stocks' = before]_vars

\* a Transfer of 30 units has returned success and the destination, which had
\* no record, holds them
C31_Witness ==
    /\ pc["p1"] = "done" /\ op["p1"].Type = "transfer" /\ res["p1"] = "ok"
    /\ Key("A", "L2") \notin DOMAIN pre["p1"].stocks
    /\ GetStock("A", "L2").Quantity = op["p1"].Quantity
    /\ GetStock("A", "L1").Quantity
          = pre["p1"].stocks[Key("A", "L1")].Quantity - op["p1"].Quantity

\* what the entries of the journal with a reference of the set counted add up
\* to for an item and a location: the Inbound entries to the location, less the Outbound
\* entries from it, plus the deltas of the Adjust entries on it
JournalSum(itemID, locationID, counted) ==
    LET Signed(tx) ==
            CASE tx.Type = TransactionTypeInbound /\ tx.ToLocation = Ptr(locationID) ->
                    tx.Quantity
              [] tx.Type = TransactionTypeOutbound /\ tx.FromLocation = Ptr(locationID) ->
                    0 - tx.Quantity
              [] tx.Type = TransactionTypeAdjust /\ tx.ToLocation = Ptr(locationID) ->
                    tx.Quantity
              [] OTHER -> 0
    IN SumOver([n \in DOMAIN journal |->
                   IF journal[n].ItemID = itemID /\ journal[n].Reference \in counted
                   THEN Signed(journal[n]) ELSE 0], DOMAIN journal)

\* C32 as stated: when no call is running and no journal write has failed, the
\* quantity of every record is what the Inbound, Outbound and Adjust entries
\* of the journal add up to for its item and location.
C32_Reconciliation ==
    ((\A p \in Procs : pc[p] \in {"idle", "done"}) /\ jfailed = 0) =>
        \A i \in Items, l \in Locations :
            LET sum == JournalSum(i, l, {journal[n].Reference : n \in DOMAIN journal})
            IN IF HasStock(i, l) THEN GetStock(i, l).Quantity = sum ELSE sum = 0

\* C32 as the code has it: when no call is running and no journal write has
\* failed, the quantity of every record is what the entries written by Add,
\* Remove and Adjust add up to for its item and location, however the calls
\* of two callers interleave; an entry appended by TrackInventoryMovement
\* changes no record and is no part of the sum.
C32_LedgerReconciliation ==
    ((\A p \in Procs : pc[p] \in {"idle", "done"}) /\ jfailed = 0) =>
        \A i \in Items, l \in Locations :
            LET sum == JournalSum(i, l, {Reference(p) : p \in Procs})
            IN IF HasStock(i, l) THEN GetStock(i, l).Quantity = sum ELSE sum = 0

\* both callers are back; the journal holds a tracked receipt of 30 units
\* among the entries of the ledger and the record holds 50 units
C32_Witness ==
    /\ \A p \in Procs : pc[p] = "idle"
    /\ \E n \in DOMAIN journal : journal[n].Reference = "track"
    /\ \E n \in DOMAIN journal : journal[n].Type = TransactionTypeAdjust
    /\ \E n \in DOMAIN journal : journal[n].Type = TransactionTypeInbound
                                  /\ journal[n].Reference # "track"
    /\ HasStock("A", "L1") /\ GetStock("A", "L1").Quantity = 50
    /\ JournalSum("A", "L1", {journal[n].Reference : n \in DOMAIN journal}) = 80

\* the entries a direct Transfer has added to the journal when it returns:
\* three when it succeeded, an Outbound entry from the source, an Inbound entry
\* to the destination and a Transfer entry with both locations, in this
\* order and each with the quantity; two when its Add leg failed and the
\* compensating Add was written, the Outbound entry and an Inbound entry to
\* the source with the reference followed by "_ROLLBACK"
TransferEntries(p, whenever) ==
    (op[p].Type = "transfer" /\ pc'[p] = "done"
     /\ (whenever \/ jfailed' = pre[p].jfailed)) =>
       LET t == op[p]
           Entry(type, from, to, ref) ==
               [Type |-> type, ItemID |-> t.ItemID, FromLocation |-> from,
                ToLocation |-> to, Quantity |-> t.Quantity, UnitCost |-> Nil,
                Reference |-> ref]
           out == Entry(TransactionTypeOutbound, Ptr(t.LocationID), Nil, t.Reference)
           added == SubSeq(journal', pre[p].journal + 1, Len(journal'))
       IN /\ pc[p] = "transferred" =>
                added = <<out,
                          Entry(TransactionTypeInbound, Nil, Ptr(t.ToLocationID), t.Reference),
                          Entry(TransactionTypeTransfer, Ptr(t.LocationID),
                                Ptr(t.ToLocationID), t.Reference)>>
          /\ (leg[p] = "rollback" /\ pc[p] = "journal") =>
                added = <<out,
                          Entry(TransactionTypeInbound, Nil, Ptr(t.LocationID),
                                t.Reference \o "_ROLLBACK")>>

\* C33 as stated: every successful Transfer has appended the three entries, and
\* every Transfer whose Add leg failed and whose compensation succeeded the
\* two.
C33_TransferEntries == [][TransferEntries("p1", TRUE)]_vars

\* C33 as the code has it: the same of a Transfer during which no journal
\* write has failed; an entry whose write fails is missing from the journal
\* and the Transfer goes on and returns as if it had been written.
C33_TransferEntriesWritten == [][TransferEntries("p1", FALSE)]_vars

\* a Transfer has returned the error of its Add leg after a compensation that
\* left its entry in the journal
C33_Witness ==
    /\ pc["p1"] = "done" /\ op["p1"].Type = "transfer" /\ res["p1"] # "ok"
    /\ jfailed = pre["p1"].jfailed
    /\ Len(journal) = pre["p1"].journal + 2
    /\ journal[Len(journal)].Reference = "ref1_ROLLBACK"
    /\ journal[Len(journal)].ToLocation = Ptr("L1")

\* C34: a direct Add or Adjust that found no record and goes to create one
\* either finds none at its write, and then the record it stores is its own
\* with version 1, or finds the record that another call has created in the
\* meantime, and then it fails with a storage error, not with
\* ErrVersionMismatch, leaves the record of the winner as it is and writes no
\* journal entry.
C34_CreateRace ==
    [][\A p \in Procs :
          (/\ pc[p] = "write" /\ pc'[p] # "write"
           /\ op[p].Type \in {"add", "adjust"} /\ local[p].isNew) =>
             LET k == Key(op[p].ItemID, op[p].LocationID) IN
             IF k \in DOMAIN stocks
             THEN /\ pc'[p] = "done"
                  /\ res'[p] = StorageError
                  /\ UNCHANGED <<stocks, journal>>
             ELSE /\ pc'[p] = "journal"
                  /\ stocks'[k] = local[p].stock
                  /\ stocks'[k].Version = 1
                  /\ \A q \in Procs \ {p} :
                        (pc[q] = "write" /\ local[q].isNew /\ cur[q].ItemID = k[1]
                         /\ cur[q].LocationID = k[2]) => ~WriteAccepted(local[q])']_vars

\* the Add of one caller has lost the race against the Adjust of the other:
\* the record is the one of the Adjust, with version 1
C34_Witness ==
    /\ pc["p2"] = "done" /\ op["p2"].Type = "add" /\ local["p2"].isNew
    /\ res["p2"] = StorageError
    /\ op["p1"].Type = "adjust" /\ local["p1"].isNew /\ pc["p1"] \in {"journal", "done"}
    /\ GetStock("A", "L1") = local["p1"].stock
    /\ GetStock("A", "L1").Version = 1
    /\ GetStock("A", "L1").Quantity = -10
    /\ \A n \in DOMAIN journal : journal[n].Reference # "ref2"

\* C35: a direct Remove of a valid quantity of an item of the catalog at a
\* location of the catalog where the item has no record fails with
\* ErrInsufficientStock, creates no record, and writes no journal entry, alert
\* or event.
C35_RemoveWithoutRecord ==
    \A p \in Procs :
        (/\ pc[p] = "done" /\ op[p].Type = "remove"
         /\ op[p].Quantity > 0
         /\ GetItemOk(op[p].ItemID) /\ GetLocationOk(op[p].LocationID)
         /\ Key(op[p].ItemID, op[p].LocationID) \notin DOMAIN pre[p].stocks)
        => /\ res[p] = ErrInsufficientStock
           /\ ~HasStock(op[p].ItemID, op[p].LocationID)
           /\ Untouched(p)

\* a Remove at L2, where item A has no record while it has one at L1, has
\* failed
C35_Witness ==
    /\ pc["p1"] = "done" /\ op["p1"].Type = "remove"
    /\ op["p1"].ItemID = "A" /\ op["p1"].LocationID = "L2"
    /\ res["p1"] = ErrInsufficientStock
    /\ HasStock("A", "L1") /\ ~HasStock("A", "L2")
    /\ Len(journal) > 0

\* C36 as stated: a Transfer onto its own source fails with ValidationError, a
\* Transfer whose item, source or destination is missing from the catalog
\* fails with NotFound, and in both cases nothing is debited or journalled.
C36_TransferValidation ==
    \A p \in Procs :
        (pc[p] = "done" /\ op[p].Type = "transfer")
        => /\ op[p].LocationID = op[p].ToLocationID
                => res[p] = ValidationError /\ Untouched(p)
           /\ (\/ op[p].ItemID \notin DOMAIN ItemsTable
               \/ {op[p].LocationID, op[p].ToLocationID} \ Locations # {})
                => res[p] \in {ErrItemNotFound, ErrLocationNotFound} /\ Untouched(p)

\* C36 as the code has it: Transfer checks its quantity, then that source and
\* destination differ, then the item and the source, then the item and the
\* destination, and only then debits the source. A quantity of zero or less
\* or equal locations fail with ValidationError whatever the catalog holds;
\* otherwise an item, source or destination missing from the catalog fails
\* with ItemNotFound or LocationNotFound. In all these cases no record, no
\* journal entry, no alert and no event is written.
C36_TransferValidationOrder ==
    \A p \in Procs :
        LET c == op[p]
            invalid == c.Quantity <= 0 \/ c.LocationID = c.ToLocationID
            unknown == \/ c.ItemID \notin DOMAIN ItemsTable
                       \/ {c.LocationID, c.ToLocationID} \ Locations # {}
        IN (pc[p] = "done" /\ c.Type = "transfer" /\ (invalid \/ unknown))
           => /\ Untouched(p)
              /\ res[p] = IF invalid THEN ValidationError
                          ELSE IF c.ItemID \notin DOMAIN ItemsTable THEN ErrItemNotFound
                          ELSE ErrLocationNotFound

\* a Transfer of stock that the source holds onto the source itself has
\* failed with ValidationError after the journal received entries
C36_Witness ==
    /\ pc["p1"] = "done"
    /\ op["p1"].Type = "transfer"
    /\ op["p1"].LocationID = op["p1"].ToLocationID
    /\ res["p1"] = ValidationError
    /\ HasStock("A", "L1")
    /\ GetStock("A", "L1").Quantity >= op["p1"].Quantity
    /\ Len(journal) > 0

\* C37: the alerts change only in the triggerLowStockAlert of a Remove, a
\* direct one or the Remove leg of a Transfer, which appends one active alert
\* for the record it wrote and leaves the alerts before it as they were. No
\* step of Add, Adjust (whatever quantity it sets), Reserve,
\* ReleaseReservation or of the Add leg and the rollback of a Transfer changes
\* them, so every alert stays active.
C37_OnlyRemoveAlerts ==
    [][/\ alerts' # alerts
          => \E p \in Procs :
                /\ pc[p] = "alert" /\ cur[p].Type = "remove" /\ leg[p] \in {"none", "remove"}
                /\ Len(alerts') = Len(alerts) + 1
                /\ SubSeq(alerts', 1, Len(alerts)) = alerts
                /\ alerts'[Len(alerts')].ItemID = cur[p].ItemID
                /\ alerts'[Len(alerts')].LocationID = cur[p].LocationID
       /\ \A i \in 1..Len(alerts') :
             alerts'[i].IsActive /\ alerts'[i].ResolvedAt = Nil]_vars

\* a Transfer has returned the error of its Add leg after its rollback put the
\* units back on the source, and the alert of its Remove leg is still active
C37_Witness ==
    /\ pc["p1"] = "done" /\ op["p1"].Type = "transfer" /\ res["p1"] # "ok"
    /\ HasStock("A", "L1") /\ Key("A", "L1") \in DOMAIN pre["p1"].stocks
    /\ GetStock("A", "L1").Quantity = pre["p1"].stocks[Key("A", "L1")].Quantity
    /\ GetStock("A", "L1").Version = pre["p1"].stocks[Key("A", "L1")].Version + 2
    /\ Len(alerts) = pre["p1"].alerts + 1
    /\ alerts[Len(alerts)].IsActive
    /\ alerts[Len(alerts)].CurrentQty = 0

C39_ClassesMonotone ==
    \A p \in Procs :
        (pc[p] = "done" /\ op[p].Type = "CalculateABCClassification") =>
            LET loc == op[p].LocationID
                values == ItemValues(loc)
                S == DOMAIN values
                total == Cumulative(CHOOSE s \in Descending(S, loc) : TRUE, Cardinality(S), loc)
                place(class) == CASE class = "A" -> 1 [] class = "B" -> 2 [] class = "C" -> 3
            IN ((\A i \in S : values[i] >= 0) /\ total > 0)
               => /\ \E s \in Descending(S, loc) :
                        /\ \A m, n \in DOMAIN s :
                              m < n => place(ret[p][s[m]]) <= place(ret[p][s[n]])
                        /\ ret[p][s[1]] = "A" => 100 * values[s[1]] <= 80 * total
                  /\ Cardinality(S) = 1 => \A i \in S : ret[p][i] = "C"

\* 150 units of A are all that L1 holds, and A has been put in class C
C39_Witness ==
    /\ pc["p1"] = "done" /\ op["p1"].Type = "CalculateABCClassification"
    /\ DOMAIN ItemValues("L1") = {"A"}
    /\ GetStock("A", "L1").Quantity = 150
    /\ ret["p1"] = [i \in {"A"} |-> "C"]

====
